---- MODULE Spec2Model ----
(***************************************************************************)
(* State-machine model of Imag_map_dash: the SQLite data layer and the     *)
(* Dash callbacks of src/sqlite_code.py, and the pandas variant with its   *)
(* bounded render cache of src/app.py.                                     *)
(*                                                                         *)
(* A pandas DataFrame is a record [columns, rows]: the set of its column   *)
(* names and the sequence of its rows.  A Python call that raises is a     *)
(* result with status "raise" and the exception's name in exc.             *)
(* A nullable SQL integer is a set: {} for NULL, {v} for the value v.      *)
(***************************************************************************)
EXTENDS Integers, Sequences, FiniteSets, TLC

VARIABLES
    metadata,      \* corpus.db, table metadata: sequence of rows, in rowid order
    places,        \* place_exploded.db, table places: sequence of rows
    dl,            \* the DataLayer object: "new", "ready", or "failed" (constructor raised)
    cached_lists,  \* DataLayer._cached_lists
    corpus_stats,  \* DataLayer._corpus_stats
    ret,           \* the last data-layer call: operation, arguments and outcome
    statements,    \* the SQL statements that call issued, in order
    max_variable_number,  \* the store's per-statement parameter ceiling
    program,       \* the module that serves the map: "app.py" or "sqlite_code.py"
    map_cache,     \* the module's global _map_cache: cache key -> HTML
    last,          \* the last map request: its inputs and its outcome
    thr,           \* the request threads of the server: where each is in update_map
    cached_data,   \* app.py's global _cached_data, with the number of loads so far
    agg,           \* the last aggregation of mention rows: its input and its output
    marker,        \* the last marker radius computed by a renderer
    tl,            \* the timeline tab: slider year, play button, last frame
    page           \* the page of sqlite_code.py: the filtered-data store, the
                   \* callbacks still to run, what each iframe shows

dlvars == <<metadata, places, dl, cached_lists, corpus_stats, ret, statements,
            max_variable_number>>

cachevars == <<program, map_cache, last, thr, cached_data>>

viewvars == <<agg, marker, tl, page>>

vars == <<dlvars, cachevars, viewvars>>

---------------------------------------------------------------------------
(* Bounds of the model *)

\* number of documents of the corpus (dhlabid 1..NumDocs)
NumDocs == 4

\* the batch size bound to _execute_batched_query by its callers; the code's
\* default is 499, scaled here to the size of the model's id lists
BatchSize == 2

\* SQLite's default per-statement parameter ceiling, for the runs in which the
\* ceiling is not scaled with the batch size
DefaultCeiling == 999

DocIds == 1..NumDocs

---------------------------------------------------------------------------
(* Helpers *)

Min(a, b) == IF a <= b THEN a ELSE b

Range(s) == {s[i] : i \in DOMAIN s}

\* number of occurrences of r in the sequence s
Count(s, r) == Cardinality({i \in DOMAIN s : s[i] = r})

\* the duplicate-free sequences over S
ListsOver(S) ==
    UNION {{s \in [1..n -> S] : \A i, j \in 1..n : i # j => s[i] # s[j]} : n \in 0..Cardinality(S)}

\* pd.concat(frames, ignore_index=True)
RECURSIVE ConcatRows(_)
ConcatRows(frames) ==
    IF frames = <<>> THEN <<>> ELSE Head(frames).rows \o ConcatRows(Tail(frames))

ConcatFrames(frames) ==
    [columns |-> UNION {frames[i].columns : i \in DOMAIN frames},
     rows    |-> ConcatRows(frames)]

\* pd.DataFrame()
EmptyFrame == [columns |-> {}, rows |-> <<>>]

\* the elements of a set of integers in ascending order
RECURSIVE SortedSeq(_)
SortedSeq(S) ==
    IF S = {} THEN <<>>
    ELSE LET m == CHOOSE x \in S : \A y \in S : x <= y
         IN  <<m>> \o SortedSeq(S \ {m})

---------------------------------------------------------------------------
(* The stores *)

Tokens == {"Bergen", "Oslo"}

MetadataColumns == {"dhlabid", "title", "author", "year", "urn"}

PlaceColumns == {"dhlabid", "token", "modern_name", "freq", "lat", "lon", "feature_class"}

\* the rows of table metadata whose dhlabid is one of ids, in table order
MetadataRowsFor(ids) == SelectSeq(metadata, LAMBDA r : r.dhlabid \in ids)

\* the rows of table places whose dhlabid is one of ids, in table order
PlaceRowsFor(ids) == SelectSeq(places, LAMBDA r : r.dhlabid \in ids)

---------------------------------------------------------------------------
(* DataLayer._execute_batched_query *)

Raise(exc, stmts) ==
    [status |-> "raise", exc |-> exc, df |-> EmptyFrame, statements |-> stmts]

Return(df, stmts) ==
    [status |-> "ok", exc |-> "", df |-> df, statements |-> stmts]

\* the base queries of the three callers: the table they read and the number
\* of {} replacement fields in their text
PlacesBaseQuery == [kind |-> "places_by_id", fields |-> 1]

MetadataBaseQuery == [kind |-> "metadata_by_id", fields |-> 1]

FilterByPlacesBaseQuery == [kind |-> "ids_by_token_and_id", fields |-> 2]

\* base_query.format(placeholders): one positional argument; a second
\* automatically numbered field has no argument to take
Format(base_query, n) ==
    IF base_query.fields > 1
    THEN [status |-> "raise", exc |-> "IndexError", query |-> base_query, nph |-> 0]
    ELSE [status |-> "ok", exc |-> "", query |-> base_query,
          nph |-> base_query.fields * n]

\* the rows a statement selects, its parameters bound in order
QueryRows(kind, params) ==
    IF kind = "places_by_id"
    THEN [columns |-> PlaceColumns, rows |-> PlaceRowsFor(Range(params))]
    ELSE IF kind = "metadata_by_id"
    THEN [columns |-> MetadataColumns, rows |-> MetadataRowsFor(Range(params))]
    ELSE \* token IN (the ids of the batch) AND dhlabid IN (the tokens): the
         \* parameters are bound in the order batch + extra_params, and no
         \* token equals an id
         [columns |-> {"dhlabid"}, rows |-> <<>>]

\* pd.read_sql_query(query, con, params=params)
ReadSqlQuery(q, params) ==
    IF q.nph > max_variable_number
    THEN [status |-> "raise", exc |-> "OperationalError", df |-> EmptyFrame]
    ELSE IF q.nph # Len(params)
    THEN [status |-> "raise", exc |-> "ProgrammingError", df |-> EmptyFrame]
    ELSE [status |-> "ok", exc |-> "", df |-> QueryRows(q.query.kind, params)]

Statement(kind, params) == [kind |-> kind, nparams |-> Len(params), params |-> params]

\* the slice taken one id short: id_list[i:i + batch_size - 1]
BatchOneShort(id_list, i, batch_size) ==
    SubSeq(id_list, i + 1, Min(i + batch_size - 1, Len(id_list)))

\* the slice id_list[i:i + batch_size], i counted from 0
Batch(id_list, i, batch_size) ==
    SubSeq(id_list, i + 1, Min(i + batch_size, Len(id_list)))

\* for i in range(0, len(id_list), batch_size): the loop from index i on,
\* all_results and the statements issued so far carried along
RECURSIVE BatchLoop(_, _, _, _, _, _, _)
BatchLoop(base_query, id_list, extra_params, batch_size, i, all_results, stmts) ==
    IF batch_size < 0 \/ i >= Len(id_list)
    THEN IF all_results # <<>>
         THEN Return(ConcatFrames(all_results), stmts)
         ELSE Return(EmptyFrame, stmts)
    ELSE LET batch  == Batch(id_list, i, batch_size)
             q      == Format(base_query, Len(batch))
             params == batch \o extra_params
             r      == ReadSqlQuery(q, params)
             issued == Append(stmts, Statement(base_query.kind, params))
         IN  IF q.status = "raise" THEN Raise(q.exc, stmts)
             ELSE IF r.status = "raise" THEN Raise(r.exc, issued)
             ELSE BatchLoop(base_query, id_list, extra_params, batch_size,
                            i + batch_size, Append(all_results, r.df), issued)

ExecuteBatchedQuery(base_query, id_list, extra_params, batch_size) ==
    IF batch_size = 0
    THEN Raise("ValueError", <<>>)   \* range() arg 3 must not be zero
    ELSE BatchLoop(base_query, id_list, extra_params, batch_size, 0, <<>>, <<>>)

---------------------------------------------------------------------------
(* The retrieval operations of DataLayer *)

GetPlacesForDhlabids(dhlabids) ==
    IF Len(dhlabids) = 0 THEN Return(EmptyFrame, <<>>)
    ELSE ExecuteBatchedQuery(PlacesBaseQuery, dhlabids, <<>>, BatchSize)

GetMetadataForDhlabids(dhlabids) ==
    IF Len(dhlabids) = 0 THEN Return(EmptyFrame, <<>>)
    ELSE ExecuteBatchedQuery(MetadataBaseQuery, dhlabids, <<>>, BatchSize)

\* df['dhlabid'].tolist()
ColumnToList(df, column) ==
    IF column \in df.columns
    THEN [status |-> "ok", exc |-> "",
          value |-> [i \in DOMAIN df.rows |-> df.rows[i].dhlabid]]
    ELSE [status |-> "raise", exc |-> "KeyError", value |-> <<>>]

\* the outcome of filter_by_places: value is the list it returns
FilterByPlaces(dhlabids, place_tokens) ==
    IF Len(place_tokens) = 0
    THEN [status |-> "ok", exc |-> "", value |-> dhlabids, statements |-> <<>>]
    ELSE LET r == ExecuteBatchedQuery(FilterByPlacesBaseQuery, dhlabids,
                                      place_tokens, BatchSize)
             l == ColumnToList(r.df, "dhlabid")
         IN  IF r.status = "raise"
             THEN [status |-> "raise", exc |-> r.exc, value |-> <<>>,
                   statements |-> r.statements]
             ELSE [status |-> l.status, exc |-> l.exc, value |-> l.value,
                   statements |-> r.statements]

---------------------------------------------------------------------------
(* DataLayer.get_filtered_corpus_ids *)

\* years is <<>> (None or an empty list) or <<lo, hi>>; categories, authors
\* and titles are sets (None and the empty list are the empty set), the
\* order of an IN list being immaterial; sample_size 0 stands for None and 0
QualifiesYearBelowUpper(r, years, categories, authors, titles) ==
    /\ Len(years) > 0 => \E y \in r.year : years[1] <= y /\ y < years[2]
    /\ Cardinality(categories) > 0 => r.category \in categories
    /\ Cardinality(authors) > 0 => r.author \in authors
    /\ Cardinality(titles) > 0 => r.title \in titles

QualifiesOnlyDatedDocuments(r, years, categories, authors, titles) ==
    /\ r.year # {}
    /\ Len(years) > 0 => \E y \in r.year : years[1] <= y /\ y <= years[2]
    /\ Cardinality(categories) > 0 => r.category \in categories
    /\ Cardinality(authors) > 0 => r.author \in authors
    /\ Cardinality(titles) > 0 => r.title \in titles

Qualifies(r, years, categories, authors, titles) ==
    /\ Len(years) > 0 => \E y \in r.year : years[1] <= y /\ y <= years[2]
    /\ Cardinality(categories) > 0 => r.category \in categories
    /\ Cardinality(authors) > 0 => r.author \in authors
    /\ Cardinality(titles) > 0 => r.title \in titles

FilterParamCount(years, categories, authors, titles, sample_size) ==
    (IF Len(years) > 0 THEN Len(years) ELSE 0)
    + Cardinality(categories) + Cardinality(authors) + Cardinality(titles)
    + (IF sample_size # 0 THEN 1 ELSE 0)

GetFilteredCorpusIdsWithReplacement(years, categories, authors, titles, sample_size) ==
    LET rows == SelectSeq(metadata,
                    LAMBDA r : Qualifies(r, years, categories, authors, titles))
        ids  == [i \in DOMAIN rows |-> rows[i].dhlabid]
        stmt == <<[kind |-> "filtered_ids", nparams |-> 0]>>
    IN  IF sample_size = 0
        THEN {[status |-> "ok", exc |-> "", value |-> ids, statements |-> stmt]}
        ELSE {[status |-> "ok", exc |-> "", statements |-> stmt,
               value |-> [i \in DOMAIN p |-> ids[p[i]]]] :
                p \in [1..(IF ids = <<>> THEN 0 ELSE sample_size) -> DOMAIN ids]}

\* the lists the call may return: one list without sampling, and with
\* ORDER BY RANDOM() LIMIT sample_size every duplicate-free arrangement of
\* sample_size of the qualifying rows (all of them when fewer qualify)
GetFilteredCorpusIds(years, categories, authors, titles, sample_size) ==
    LET rows == SelectSeq(metadata,
                    LAMBDA r : Qualifies(r, years, categories, authors, titles))
        ids  == [i \in DOMAIN rows |-> rows[i].dhlabid]
        n    == FilterParamCount(years, categories, authors, titles, sample_size)
        stmt == <<[kind |-> "filtered_ids", nparams |-> n]>>
    IN  IF n > max_variable_number
        THEN {[status |-> "raise", exc |-> "OperationalError", value |-> <<>>,
               statements |-> stmt]}
        ELSE IF sample_size = 0
        THEN {[status |-> "ok", exc |-> "", value |-> ids, statements |-> stmt]}
        ELSE {[status |-> "ok", exc |-> "", statements |-> stmt,
               value |-> [i \in DOMAIN p |-> ids[p[i]]]] :
                p \in {q \in [1..Min(sample_size, Len(ids)) -> DOMAIN ids] :
                         \A i, j \in DOMAIN q : i # j => q[i] # q[j]}}

---------------------------------------------------------------------------
(* DataLayer.__init__ and _initialize_cache *)

\* SELECT DISTINCT column ... WHERE column IS NOT NULL ORDER BY column: the
\* ordered list is determined by the set of its values
DistinctYears(rows) == UNION {r.year : r \in Range(rows)}

PlaceDhlabids == {r.dhlabid : r \in Range(places)}

\* the statements _initialize_cache issues and the number of parameters each
\* binds; the author and the title query bind every dhlabid of table places
InitializeCacheStatements ==
    LET n == Cardinality(PlaceDhlabids)
    IN  << [kind |-> "distinct_category", nparams |-> 0],
           [kind |-> "distinct_year",     nparams |-> 0],
           [kind |-> "count_books",       nparams |-> 0],
           [kind |-> "year_range",        nparams |-> 0],
           [kind |-> "place_dhlabids",    nparams |-> 0],
           [kind |-> "count_places",      nparams |-> 0],
           [kind |-> "distinct_author",   nparams |-> n],
           [kind |-> "distinct_title",    nparams |-> n],
           [kind |-> "count_books",       nparams |-> 0],
           [kind |-> "year_range",        nparams |-> 0],
           [kind |-> "count_places",      nparams |-> 0] >>

CachedLists ==
    LET with_places == MetadataRowsFor(PlaceDhlabids)
    IN  [category |-> {r.category : r \in Range(metadata)},
         year     |-> DistinctYears(metadata),
         author   |-> {r.author : r \in Range(with_places)},
         title    |-> {r.title : r \in Range(with_places)}]

CorpusStats ==
    LET ys == DistinctYears(metadata)
    IN  [total_books  |-> Cardinality({r.dhlabid : r \in Range(metadata)}),
         min_year     |-> {y \in ys : \A z \in ys : y <= z},
         max_year     |-> {y \in ys : \A z \in ys : y >= z},
         total_places |-> Cardinality({r.token : r \in Range(places)})]

NoLists == [category |-> {}, year |-> {}, author |-> {}, title |-> {}]

NoStats == [total_books |-> 0, min_year |-> {}, max_year |-> {}, total_places |-> 0]

\* the first statement of _initialize_cache that the store rejects, 0 if none
FirstRejected(stmts) ==
    LET bad == {i \in DOMAIN stmts : stmts[i].nparams > max_variable_number}
    IN  IF bad = {} THEN 0 ELSE CHOOSE i \in bad : \A j \in bad : i <= j

---------------------------------------------------------------------------
(* The inputs of the model *)

\* the attributes a document may have: year NULL or set, two categories,
\* two authors, two titles
DocKinds ==
    { [year |-> {1850}, category |-> "novel",  author |-> "Ibsen", title |-> "Brand"],
      [year |-> {1890}, category |-> "novel",  author |-> "Lie",   title |-> "Digte"],
      [year |-> {},     category |-> "poetry", author |-> "Ibsen", title |-> "Digte"] }

WithId(id, r) ==
    [dhlabid |-> id, year |-> r.year, category |-> r.category,
     author |-> r.author, title |-> r.title]

\* table metadata: one row per document, dhlabid unique, in id order
MetadataStores == {[i \in DocIds |-> WithId(i, k[i])] : k \in [DocIds -> DocKinds]}

\* what one document contributes to table places: nothing, one row, two rows
PlacePatterns ==
    { <<>>,
      << [token |-> "Oslo", freq |-> 5] >>,
      << [token |-> "Bergen", freq |-> 1], [token |-> "Oslo", freq |-> 3] >> }

RECURSIVE PlaceTable(_, _)
PlaceTable(pattern, id) ==
    IF id > NumDocs THEN <<>>
    ELSE [i \in DOMAIN pattern[id] |->
            [dhlabid |-> id, token |-> pattern[id][i].token, freq |-> pattern[id][i].freq]]
         \o PlaceTable(pattern, id + 1)

PlaceStores == {PlaceTable(p, 1) : p \in [DocIds -> PlacePatterns]}

\* the metadata of the runs that vary table places
FixedMetadata ==
    [i \in DocIds |->
        WithId(i, [year |-> {1849 + i}, category |-> "novel", author |-> "Ibsen",
                   title |-> "Brand"])]

YearRanges == {<<>>, <<1840, 1860>>, <<1850, 1890>>}

CategorySets == {{}, {"novel"}, {"poetry", "essay"}}

AuthorSets == {{}, {"Ibsen"}, {"Lie", "Nobody"}}

TitleSets == {{}, {"Digte"}}

SampleSizes == {0, 1, 2}

IdLists == ListsOver(DocIds)

TokenLists == {<<>>, <<"Oslo">>, <<"Bergen", "Trondheim">>}

NoFilter == [years |-> <<>>, categories |-> {}, authors |-> {}, titles |-> {},
             sample_size |-> 0]

\* the record of a call of the data layer
Call(op, ids, tokens, filter, r, columns, rows, value) ==
    [op |-> op, ids |-> ids, tokens |-> tokens, filter |-> filter,
     status |-> r.status, exc |-> r.exc,
     columns |-> columns, rows |-> rows, value |-> value]

NoCall ==
    [op |-> "none", ids |-> <<>>, tokens |-> <<>>, filter |-> NoFilter,
     status |-> "ok", exc |-> "", columns |-> {}, rows |-> <<>>, value |-> <<>>]

---------------------------------------------------------------------------
(* Actions of the data layer *)

\* DataLayer(): __init__ runs _initialize_cache; a rejected statement ends
\* the constructor with the exception
Construct ==
    /\ dl = "new"
    /\ LET stmts == InitializeCacheStatements
           k     == FirstRejected(stmts)
       IN  IF k = 0
           THEN /\ dl' = "ready"
                /\ cached_lists' = CachedLists
                /\ corpus_stats' = CorpusStats
                /\ statements' = stmts
                /\ ret' = [NoCall EXCEPT !.op = "__init__"]
           ELSE /\ dl' = "failed"
                /\ UNCHANGED <<cached_lists, corpus_stats>>
                /\ statements' = SubSeq(stmts, 1, k)
                /\ ret' = [NoCall EXCEPT !.op = "__init__", !.status = "raise",
                                         !.exc = "OperationalError"]
    /\ UNCHANGED <<metadata, places, max_variable_number>>
    /\ UNCHANGED <<cachevars, viewvars>>

\* the data layer is constructed and no call is in progress
Idle == dl = "ready" /\ ret.op \in {"__init__", "none"}

\* the caller takes the result of the call; the next call may start
ReturnToCaller ==
    /\ dl = "ready"
    /\ ret.op \notin {"__init__", "none"}
    /\ ret' = NoCall
    /\ statements' = <<>>
    /\ UNCHANGED <<metadata, places, dl, cached_lists, corpus_stats, max_variable_number>>
    /\ UNCHANGED <<cachevars, viewvars>>

CallGetFilteredCorpusIds ==
    /\ Idle
    /\ \E years \in YearRanges, categories \in CategorySets, authors \in AuthorSets,
          titles \in TitleSets, sample_size \in SampleSizes :
         \E r \in GetFilteredCorpusIds(years, categories, authors, titles, sample_size) :
            /\ ret' = Call("get_filtered_corpus_ids", <<>>, <<>>,
                           [years |-> years, categories |-> categories,
                            authors |-> authors, titles |-> titles,
                            sample_size |-> sample_size],
                           r, {}, <<>>, r.value)
            /\ statements' = r.statements
    /\ UNCHANGED <<metadata, places, dl, cached_lists, corpus_stats, max_variable_number>>
    /\ UNCHANGED <<cachevars, viewvars>>

CallGetPlacesForDhlabids ==
    /\ Idle
    /\ \E ids \in IdLists :
         LET r == GetPlacesForDhlabids(ids)
         IN  /\ ret' = Call("get_places_for_dhlabids", ids, <<>>, NoFilter, r,
                            r.df.columns, r.df.rows, <<>>)
             /\ statements' = r.statements
    /\ UNCHANGED <<metadata, places, dl, cached_lists, corpus_stats, max_variable_number>>
    /\ UNCHANGED <<cachevars, viewvars>>

CallGetMetadataForDhlabids ==
    /\ Idle
    /\ \E ids \in IdLists :
         LET r == GetMetadataForDhlabids(ids)
         IN  /\ ret' = Call("get_metadata_for_dhlabids", ids, <<>>, NoFilter, r,
                            r.df.columns, r.df.rows, <<>>)
             /\ statements' = r.statements
    /\ UNCHANGED <<metadata, places, dl, cached_lists, corpus_stats, max_variable_number>>
    /\ UNCHANGED <<cachevars, viewvars>>

CallFilterByPlaces ==
    /\ Idle
    /\ \E ids \in IdLists, tokens \in TokenLists :
         LET r == FilterByPlaces(ids, tokens)
         IN  /\ ret' = Call("filter_by_places", ids, tokens, NoFilter, r,
                            {}, <<>>, r.value)
             /\ statements' = r.statements
    /\ UNCHANGED <<metadata, places, dl, cached_lists, corpus_stats, max_variable_number>>
    /\ UNCHANGED <<cachevars, viewvars>>

\* the batch sizes a caller may pass, the non-positive ones included
BatchSizes == (0 - 2)..(BatchSize + 1)

\* _execute_batched_query called with a batch size of the caller's choice,
\* on the place query
CallExecuteBatchedQuery ==
    /\ Idle
    /\ \E ids \in IdLists, batch_size \in BatchSizes :
         LET r == ExecuteBatchedQuery(PlacesBaseQuery, ids, <<>>, batch_size)
         IN  /\ ret' = [batch_size |-> batch_size] @@
                          Call("_execute_batched_query", ids, <<>>, NoFilter, r,
                               r.df.columns, r.df.rows, <<>>)
             /\ statements' = r.statements
    /\ UNCHANGED <<metadata, places, dl, cached_lists, corpus_stats, max_variable_number>>
    /\ UNCHANGED <<cachevars, viewvars>>

\* get_corpus_stats()
GetCorpusStats == corpus_stats

\* the columns a caller may ask get_unique_values for; the last is not
\* cached
ListColumns == {"category", "year", "author", "title", "publisher"}

\* get_unique_values(column): self._cached_lists.get(column, [])
GetUniqueValues(column) ==
    IF column \in DOMAIN cached_lists THEN cached_lists[column] ELSE {}

CallGetCorpusStats ==
    /\ Idle
    /\ ret' = [NoCall EXCEPT !.op = "get_corpus_stats", !.value = GetCorpusStats]
    /\ statements' = <<>>
    /\ UNCHANGED <<metadata, places, dl, cached_lists, corpus_stats, max_variable_number>>
    /\ UNCHANGED <<cachevars, viewvars>>

CallGetUniqueValues ==
    /\ Idle
    /\ \E column \in ListColumns :
         ret' = [NoCall EXCEPT !.op = "get_unique_values", !.tokens = <<column>>,
                               !.value = GetUniqueValues(column)]
    /\ statements' = <<>>
    /\ UNCHANGED <<metadata, places, dl, cached_lists, corpus_stats, max_variable_number>>
    /\ UNCHANGED <<cachevars, viewvars>>

---------------------------------------------------------------------------
(* The render cache: make_map, get_cached_map_html, clean_map_cache *)

\* app.py's _cached_data before the first call of get_cached_data: every
\* entry None.  loads counts the times the files were read.
NotLoaded == [corpus |-> {}, places |-> {}, lists |-> {}, loads |-> 0]

\* the call that reads the files whatever the cache holds
GetCachedDataReloads(cached) ==
    [corpus |-> {"imag_korpus.xlsx"}, places |-> {"exploded_places.pkl"},
     lists |-> {"authors", "titles", "categories"}, loads |-> cached.loads + 1]

\* get_cached_data(): the state of _cached_data after the call, which is
\* also what the call returns
GetCachedData(cached) ==
    IF cached.corpus = {}
    THEN [corpus |-> {"imag_korpus.xlsx"}, places |-> {"exploded_places.pkl"},
          lists |-> {"authors", "titles", "categories"}, loads |-> cached.loads + 1]
    ELSE cached

\* app.py at import: cached_data = get_cached_data()
LoadedAtImport == GetCachedData(NotLoaded)

\* a call of get_cached_data(): the first at import, the later ones in
\* update_map; the status of the call tells whether it read the files
CallGetCachedData ==
    /\ ret.op \in {"__init__", "none"}
    /\ cached_data' = GetCachedData(cached_data)
    /\ ret' = [NoCall EXCEPT !.op = "get_cached_data", !.value = cached_data',
                             !.status = IF cached_data.corpus = {} THEN "loaded"
                                        ELSE "cached"]
    /\ statements' = <<>>
    /\ UNCHANGED <<metadata, places, dl, cached_lists, corpus_stats, max_variable_number>>
    /\ UNCHANGED <<program, map_cache, last, thr, viewvars>>

\* clean_map_cache clears a cache of more than this many entries
MapCacheLimit == 10

EUROPE_VIEW == [center |-> "[55, 15]", zoom |-> "4"]

WORLD_VIEW == [center |-> "[20, 0]", zoom |-> "2"]

\* center=None, zoom=None, as they are formatted into the cache key
NoView == [center |-> "None", zoom |-> "None"]

\* f"{significant_places.shape[0]}_{basemap}_{marker_size}_{center}_{zoom}":
\* the row count of the frame and the four other values, "_" between them
\* (no value of the model contains "_", so the tuple stands for the string)
CacheKey(significant_places, basemap, marker_size, center, zoom) ==
    <<Len(significant_places), basemap, marker_size, center, zoom>>

\* create_map(): the HTML of the map, one marker and one popup per row of
\* significant_places, on the chosen basemap, centred on the view (on the
\* median of the places when center is None, at zoom 4 when zoom is None)
CreateMap(significant_places, basemap, marker_size, center, zoom) ==
    [markers     |-> significant_places,
     basemap     |-> basemap,
     marker_size |-> marker_size,
     center      |-> IF center = "None" THEN "median" ELSE center,
     zoom        |-> IF zoom = "None" THEN EUROPE_VIEW.zoom ELSE zoom]

NoHtml ==
    [markers |-> <<>>, basemap |-> "", marker_size |-> 0, center |-> "", zoom |-> ""]

\* the call that returns the new HTML without storing it
GetCachedMapHtmlNoStore(cache, cache_key, html, fails) ==
    IF cache_key \notin DOMAIN cache
    THEN IF fails
         THEN [status |-> "raise", cache |-> cache, html |-> NoHtml, called |-> TRUE]
         ELSE [status |-> "ok", cache |-> cache, html |-> html, called |-> TRUE]
    ELSE [status |-> "ok", cache |-> cache, html |-> cache[cache_key], called |-> FALSE]

\* the call that stores an empty page under the key when the render raises
GetCachedMapHtmlStoresFailure(cache, cache_key, html, fails) ==
    IF cache_key \notin DOMAIN cache
    THEN IF fails
         THEN [status |-> "raise", cache |-> (cache_key :> NoHtml) @@ cache,
               html |-> NoHtml, called |-> TRUE]
         ELSE LET stored == (cache_key :> html) @@ cache
              IN  [status |-> "ok", cache |-> stored, html |-> stored[cache_key],
                   called |-> TRUE]
    ELSE [status |-> "ok", cache |-> cache, html |-> cache[cache_key], called |-> FALSE]

\* get_cached_map_html(cache_key, create_map_func) on the cache `cache`;
\* html is what create_map_func() returns if it is called and does not raise,
\* fails tells that it raises.  called: create_map_func was invoked.
GetCachedMapHtml(cache, cache_key, html, fails) ==
    IF cache_key \notin DOMAIN cache
    THEN IF fails
         THEN [status |-> "raise", cache |-> cache, html |-> NoHtml, called |-> TRUE]
         ELSE LET stored == (cache_key :> html) @@ cache
              IN  [status |-> "ok", cache |-> stored, html |-> stored[cache_key],
                   called |-> TRUE]
    ELSE [status |-> "ok", cache |-> cache, html |-> cache[cache_key], called |-> FALSE]

\* clean_map_cache() of app.py
CleanMapCache(cache) ==
    IF Cardinality(DOMAIN cache) > MapCacheLimit THEN <<>> ELSE cache

MakeMap(cache, req, fails) ==
    GetCachedMapHtml(
        cache,
        CacheKey(req.places, req.basemap, req.marker_size, req.center, req.zoom),
        CreateMap(req.places, req.basemap, req.marker_size, req.center, req.zoom),
        fails)

---------------------------------------------------------------------------
(* The map requests of the model *)

Place(token, freq) == [token |-> token, freq |-> freq]

PlaceList ==
    << Place("Oslo", 8), Place("Bergen", 5), Place("Trondheim", 3),
       Place("Stavanger", 2), Place("Hamar", 1), Place("Moss", 1) >>

\* the aggregated places handed to make_map: the one to six most mentioned
\* places, and a second frame of one row
Frames ==
    {SubSeq(PlaceList, 1, n) : n \in 1..Len(PlaceList)} \cup {<< Place("Bergen", 5) >>}

Request(significant_places, basemap, marker_size, view) ==
    [places |-> significant_places, basemap |-> basemap, marker_size |-> marker_size,
     center |-> view.center, zoom |-> view.zoom]

\* app.py: update_map passes the view state's center and zoom
AppRequests ==
    {Request(f, "OpenStreetMap.Mapnik", 3, EUROPE_VIEW) : f \in Frames}
    \cup {Request(f, "CartoDB.Positron", 5, WORLD_VIEW) : f \in Frames}

\* sqlite_code.py: update_map passes neither center nor zoom
SqliteRequests ==
    {Request(f, "OpenStreetMap.Mapnik", 3, NoView) : f \in Frames}
    \cup {Request(f, "CartoDB.Positron", 5, NoView) : f \in Frames}

KeyOf(req) == CacheKey(req.places, req.basemap, req.marker_size, req.center, req.zoom)

NoRequest ==
    [request |-> Request(<<>>, "", 0, [center |-> "", zoom |-> ""]),
     status |-> "none", html |-> NoHtml, called |-> FALSE, cleared |-> FALSE]

\* app.py update_map: get_cached_data() is called, the map is made, then
\* the cache is cleaned; a raising make_map ends the callback before
\* clean_map_cache
UpdateMapApp ==
    /\ program = "app.py"
    /\ last.status = "none"
    /\ \E req \in AppRequests, fails \in BOOLEAN :
         LET r == MakeMap(map_cache, req, fails)
             cleaned == IF r.status = "ok" THEN CleanMapCache(r.cache) ELSE r.cache
         IN  /\ map_cache' = cleaned
             /\ last' = [request |-> req, status |-> r.status, html |-> r.html,
                         called |-> r.called, cleared |-> cleaned # r.cache]
    /\ cached_data' = GetCachedData(cached_data)
    /\ UNCHANGED <<program, thr, dlvars, viewvars>>

\* sqlite_code.py update_map, from make_map on: nothing cleans the cache
UpdateMapSqlite ==
    /\ program = "sqlite_code.py"
    /\ last.status = "none"
    /\ \E req \in SqliteRequests, fails \in BOOLEAN :
         LET r == MakeMap(map_cache, req, fails)
         IN  /\ map_cache' = r.cache
             /\ last' = [request |-> req, status |-> r.status, html |-> r.html,
                         called |-> r.called, cleared |-> FALSE]
    /\ UNCHANGED <<program, cached_data, thr, dlvars, viewvars>>

\* the callback has returned (or raised) and the response is sent; the next
\* request may start
SendResponse ==
    /\ last.status # "none"
    /\ last' = NoRequest
    /\ UNCHANGED <<program, cached_data, map_cache, thr, dlvars, viewvars>>

---------------------------------------------------------------------------
(* Concurrent map requests of app.py: the server runs each callback in a   *)
(* thread of its own, and the threads share _map_cache.  One step is one   *)
(* operation on the dictionary, or the run of create_map.                  *)

Threads == {"t1", "t2"}

NoThread ==
    [pc |-> "idle", request |-> NoRequest.request, html |-> NoHtml,
     called |-> FALSE, status |-> "none", result |-> NoHtml]

\* the requests the threads make: two with one key, a third with another
ThreadRequests ==
    { Request(SubSeq(PlaceList, 1, 1), "OpenStreetMap.Mapnik", 3, EUROPE_VIEW),
      Request(<< Place("Bergen", 5) >>, "OpenStreetMap.Mapnik", 3, EUROPE_VIEW),
      Request(SubSeq(PlaceList, 1, 2), "OpenStreetMap.Mapnik", 3, EUROPE_VIEW) }

\* the cache after earlier requests were served one by one: the own renders
\* of n requests that are none of the threads'
RECURSIVE CacheOf(_)
CacheOf(reqs) ==
    IF reqs = {} THEN <<>>
    ELSE LET r == CHOOSE x \in reqs : TRUE
         IN  (KeyOf(r) :> CreateMap(r.places, r.basemap, r.marker_size, r.center, r.zoom))
             @@ CacheOf(reqs \ {r})

EarlierRequests ==
    {r \in AppRequests : \A q \in ThreadRequests : KeyOf(r) # KeyOf(q)}

EarlierCaches ==
    {CacheOf({r \in EarlierRequests : Len(r.places) > n}) : n \in {1, 2, Len(PlaceList)}}

\* update_map is called: the thread enters get_cached_map_html
StartRequest(t) ==
    /\ thr[t].pc = "idle"
    /\ \E req \in ThreadRequests :
         thr' = [thr EXCEPT ![t] = [NoThread EXCEPT !.pc = "check", !.request = req]]
    /\ cached_data' = GetCachedData(cached_data)
    /\ UNCHANGED <<map_cache, program, last, dlvars, viewvars>>

\* if cache_key not in _map_cache
CheckKey(t) ==
    /\ thr[t].pc = "check"
    /\ thr' = [thr EXCEPT ![t].pc =
                 IF KeyOf(thr[t].request) \notin DOMAIN map_cache THEN "render" ELSE "read"]
    /\ UNCHANGED <<map_cache, program, cached_data, last, dlvars, viewvars>>

\* create_map_func() runs and returns the HTML, or raises
RenderMap(t) ==
    /\ thr[t].pc = "render"
    /\ \E fails \in BOOLEAN :
         LET req == thr[t].request
         IN  thr' = [thr EXCEPT ![t] =
                 IF fails
                 THEN [@ EXCEPT !.pc = "done", !.called = TRUE, !.status = "RenderError"]
                 ELSE [@ EXCEPT !.pc = "store", !.called = TRUE,
                                !.html = CreateMap(req.places, req.basemap,
                                                   req.marker_size, req.center, req.zoom)]]
    /\ UNCHANGED <<map_cache, program, cached_data, last, dlvars, viewvars>>

\* _map_cache[cache_key] = <the HTML>
StoreKey(t) ==
    /\ thr[t].pc = "store"
    /\ map_cache' = (KeyOf(thr[t].request) :> thr[t].html)
                    @@ [k \in DOMAIN map_cache \ {KeyOf(thr[t].request)} |-> map_cache[k]]
    /\ thr' = [thr EXCEPT ![t].pc = "read"]
    /\ UNCHANGED <<program, cached_data, last, dlvars, viewvars>>

\* return _map_cache[cache_key]: KeyError when the key is gone
ReadKey(t) ==
    /\ thr[t].pc = "read"
    /\ thr' = [thr EXCEPT ![t] =
                 IF KeyOf(thr[t].request) \in DOMAIN map_cache
                 THEN [@ EXCEPT !.pc = "clean", !.status = "ok",
                                !.result = map_cache[KeyOf(thr[t].request)]]
                 ELSE [@ EXCEPT !.pc = "done", !.status = "KeyError"]]
    /\ UNCHANGED <<map_cache, program, cached_data, last, dlvars, viewvars>>

\* clean_map_cache(): if len(_map_cache) > 10
CheckSize(t) ==
    /\ thr[t].pc = "clean"
    /\ thr' = [thr EXCEPT ![t].pc =
                 IF Cardinality(DOMAIN map_cache) > MapCacheLimit THEN "clear" ELSE "done"]
    /\ UNCHANGED <<map_cache, program, cached_data, last, dlvars, viewvars>>

\* _map_cache.clear()
ClearCache(t) ==
    /\ thr[t].pc = "clear"
    /\ map_cache' = <<>>
    /\ thr' = [thr EXCEPT ![t].pc = "done"]
    /\ UNCHANGED <<program, cached_data, last, dlvars, viewvars>>

\* update_map returns the HTML (or ends with the exception)
EndRequest(t) ==
    /\ thr[t].pc = "done"
    /\ thr' = [thr EXCEPT ![t] = NoThread]
    /\ UNCHANGED <<map_cache, program, cached_data, last, dlvars, viewvars>>


---------------------------------------------------------------------------
(* Aggregation of mention rows: groupby, agg, nlargest *)

\* A mention row carries the columns of the place query of sqlite_code.py:
\* dhlabid, token, modern_name, freq, lat, feature_class (lon goes with lat).
\* The rows geo_locations_corpus hands to app.py have the same content under
\* the column names name (modern_name), frekv (freq) and latitude (lat).
Mention(dhlabid, token, modern_name, feature_class, freq, lat) ==
    [dhlabid |-> dhlabid, token |-> token, modern_name |-> modern_name,
     feature_class |-> feature_class, freq |-> freq, lat |-> lat]

\* two rows of document 1 for one token, two spellings of one modern place
\* in document 2, one token under two feature classes
MentionPool ==
    { Mention(1, "Kristiania",  "Oslo",   "P", 5, 59),
      Mention(1, "Kristiania",  "Oslo",   "P", 3, 59),
      Mention(2, "Kristiania",  "Oslo",   "P", 2, 59),
      Mention(2, "Christiania", "Oslo",   "P", 4, 59),
      Mention(3, "Bergen",      "Bergen", "P", 5, 60),
      Mention(3, "Bergen",      "Bergen", "A", 1, 60) }

\* longest list of mention rows handed to an aggregation
MaxMentions == 3

MentionLists ==
    {m \in ListsOver(MentionPool) : 1 <= Len(m) /\ Len(m) <= MaxMentions}

\* position of a string among the strings of the model, in the order pandas
\* sorts group keys
Lexical ==
    [s \in {"A", "Bergen", "Christiania", "Kristiania", "Oslo", "P"} |->
        CASE s = "A" -> 1 [] s = "Bergen" -> 2 [] s = "Christiania" -> 3
          [] s = "Kristiania" -> 4 [] s = "Oslo" -> 5 [] s = "P" -> 6]

\* lexicographic order of two group keys (tuples of equal length)
RECURSIVE KeyBefore(_, _)
KeyBefore(a, b) ==
    /\ a # <<>>
    /\ \/ Head(a) < Head(b)
       \/ Head(a) = Head(b) /\ KeyBefore(Tail(a), Tail(b))

\* the group keys in sorted order (groupby sorts its keys)
RECURSIVE SortedKeys(_)
SortedKeys(S) ==
    IF S = {} THEN <<>>
    ELSE LET m == CHOOSE x \in S : \A y \in S \ {x} : KeyBefore(x, y)
         IN  <<m>> \o SortedKeys(S \ {m})

FirstFreq(rows) == IF rows = <<>> THEN 0 ELSE Head(rows).freq

\* .agg({'freq': 'sum'})
RECURSIVE SumFreq(_)
SumFreq(rows) == IF rows = <<>> THEN 0 ELSE Head(rows).freq + SumFreq(Tail(rows))

\* the rows of one group, in the order of the frame; key_of gives each row
\* its group key
GroupRows(rows, key_of, k) == SelectSeq(rows, LAMBDA r : key_of[r] = k)

\* the group keys: (name) in update_map of app.py, (token, modern_name,
\* feature_class) in update_filtered_data, (token, modern_name, lat, lon,
\* feature_class) in update_map of sqlite_code.py
KeyApp(r) == <<Lexical[r.modern_name]>>

KeyFiltered(r) == <<Lexical[r.token], Lexical[r.modern_name], Lexical[r.feature_class]>>

KeyMapSqlite(r) ==
    <<Lexical[r.token], Lexical[r.modern_name], r.lat, Lexical[r.feature_class]>>

\* One aggregated record.  doc_count is the count of documents the routine
\* computes: a set, empty where the routine computes none.
Aggregated(g, dhlabids, doc_count) ==
    [token |-> g[1].token, modern_name |-> g[1].modern_name,
     feature_class |-> g[1].feature_class, lat |-> g[1].lat,
     freq |-> SumFreq(g), dhlabid |-> dhlabids, doc_count |-> doc_count]

\* app.py: places.groupby('name').agg(token first, frekv sum, latitude
\* first, feature_class first, dhlabid list); the count of documents is
\* all_places['dhlabid'].apply(len)
AggregateApp(rows) ==
    LET keys == SortedKeys({KeyApp(r) : r \in Range(rows)})
    IN  [i \in DOMAIN keys |->
            LET g == GroupRows(rows, [r \in Range(rows) |-> KeyApp(r)], keys[i])
                l == [j \in DOMAIN g |-> g[j].dhlabid]
            IN  Aggregated(g, l, {Len(l)})]

\* update_filtered_data: groupby(token, modern_name, feature_class)
\* .agg(freq sum, dhlabid nunique)
AggregateFiltered(rows) ==
    LET keys == SortedKeys({KeyFiltered(r) : r \in Range(rows)})
    IN  [i \in DOMAIN keys |->
            LET g == GroupRows(rows, [r \in Range(rows) |-> KeyFiltered(r)], keys[i])
            IN  Aggregated(g, <<>>, {Cardinality({g[j].dhlabid : j \in DOMAIN g})})]

\* update_map of sqlite_code.py: groupby(token, modern_name, lat, lon,
\* feature_class).agg(freq sum, dhlabid first)
AggregateMapSqlite(rows) ==
    LET keys == SortedKeys({KeyMapSqlite(r) : r \in Range(rows)})
    IN  [i \in DOMAIN keys |->
            LET g == GroupRows(rows, [r \in Range(rows) |-> KeyMapSqlite(r)], keys[i])
            IN  Aggregated(g, <<g[1].dhlabid>>, {})]

\* frame without its row i
Drop(frame, i) == [j \in 1..(Len(frame) - 1) |-> IF j < i THEN frame[j] ELSE frame[j + 1]]

RECURSIVE NLargestKeepLast(_, _, _)
NLargestKeepLast(frame, n, column) ==
    IF n <= 0 \/ frame = <<>> THEN <<>>
    ELSE LET i == CHOOSE k \in DOMAIN frame :
                    /\ \A l \in DOMAIN frame : frame[l][column] <= frame[k][column]
                    /\ \A l \in (k + 1)..Len(frame) : frame[l][column] < frame[k][column]
         IN  <<frame[i]>> \o NLargestKeepLast(Drop(frame, i), n - 1, column)

\* frame.nlargest(n, column) with keep='first': the first row holding the
\* largest value, then the same of the rest, n times
RECURSIVE NLargest(_, _, _)
NLargest(frame, n, column) ==
    IF n <= 0 \/ frame = <<>> THEN <<>>
    ELSE LET i == CHOOSE k \in DOMAIN frame :
                    /\ \A l \in DOMAIN frame : frame[l][column] <= frame[k][column]
                    /\ \A l \in 1..(k - 1) : frame[l][column] < frame[k][column]
         IN  <<frame[i]>> \o NLargest(Drop(frame, i), n - 1, column)

\* sort_values('total_mentions', ascending=False): a descending arrangement,
\* the order of equal values being left to the sort
SortValuesDescending(frame, column) ==
    {[i \in DOMAIN frame |-> frame[p[i]]] :
        p \in {q \in [DOMAIN frame -> DOMAIN frame] :
                 /\ \A i, j \in DOMAIN frame : i # j => q[i] # q[j]
                 /\ \A i, j \in DOMAIN frame :
                      i < j => frame[q[i]][column] >= frame[q[j]][column]}}

\* subkorpus.sample(min(len(subkorpus), max_books)).dhlabid: every selection
\* without replacement of that many documents
SampleBooks(subkorpus, max_books) ==
    {s \in ListsOver(Range(subkorpus)) : Len(s) = Min(Len(subkorpus), max_books)}

\* all_places['dhlabid'].apply(len) / len(selected_dhlabids), as the pair
\* <<numerator, denominator>>
Dispersion(record, selected_dhlabids) == <<Len(record.dhlabid), Len(selected_dhlabids)>>

\* values of the max-places slider, scaled to the model's frames
MaxPlacesValues == {1, 2, 4}

\* values of the max-books slider, scaled to the model's corpus
MaxBooksValues == {1, 2, 3}

\* rows shown by update_place_summary
SummaryRows == 10

NoAggregation(mentions) ==
    [routine |-> "none", mentions |-> mentions, selected |-> <<>>, n |-> 0,
     all |-> <<>>, top |-> <<>>, dispersion |-> <<>>]

\* the dhlabid column of the filtered corpus: the documents of the mention
\* rows and one document that mentions no place
Subkorpus(mentions) == SortedSeq({r.dhlabid : r \in Range(mentions)} \cup {NumDocs})

\* app.py update_map: sample the filtered corpus, take the mention rows of
\* the sampled documents, aggregate by name, rank by score = frekv
UpdateMapAggregateApp ==
    /\ agg.routine = "none"
    /\ \E max_books \in MaxBooksValues, max_places \in MaxPlacesValues :
       \E selected_dhlabids \in SampleBooks(Subkorpus(agg.mentions), max_books) :
         LET rows == SelectSeq(agg.mentions,
                        LAMBDA r : r.dhlabid \in Range(selected_dhlabids))
             all_places == AggregateApp(rows)
         IN  agg' = [agg EXCEPT
                        !.routine = "app.update_map",
                        !.mentions = rows,
                        !.selected = selected_dhlabids,
                        !.n = max_places,
                        !.all = all_places,
                        !.dispersion = [i \in DOMAIN all_places |->
                                          Dispersion(all_places[i], selected_dhlabids)],
                        !.top = NLargest(all_places, max_places, "freq")]
    /\ UNCHANGED <<dlvars, cachevars, marker, tl, page>>

\* sqlite_code.py update_filtered_data: aggregate the mention rows of the
\* filtered documents and sort by total mentions
UpdateFilteredDataAggregate ==
    /\ agg.routine = "none"
    /\ LET aggregated == AggregateFiltered(agg.mentions)
       IN  \E sorted \in SortValuesDescending(aggregated, "freq") :
             agg' = [agg EXCEPT
                        !.routine = "update_filtered_data",
                        !.selected = SortedSeq({r.dhlabid : r \in Range(agg.mentions)}),
                        !.all = aggregated,
                        !.top = sorted]
    /\ UNCHANGED <<dlvars, cachevars, marker, tl, page>>

\* sqlite_code.py update_map: aggregate and keep the max_places largest
UpdateMapAggregateSqlite ==
    /\ agg.routine = "none"
    /\ \E max_places \in MaxPlacesValues :
         LET place_counts == AggregateMapSqlite(agg.mentions)
         IN  agg' = [agg EXCEPT
                        !.routine = "sqlite_code.update_map",
                        !.selected = SortedSeq({r.dhlabid : r \in Range(agg.mentions)}),
                        !.n = max_places,
                        !.all = place_counts,
                        !.top = NLargest(place_counts, max_places, "freq")]
    /\ UNCHANGED <<dlvars, cachevars, marker, tl, page>>

\* sqlite_code.py update_place_summary: the ten most mentioned places of the
\* aggregated frame update_filtered_data stored
UpdatePlaceSummary ==
    /\ agg.routine = "update_filtered_data"
    /\ agg' = [agg EXCEPT
                  !.routine = "update_place_summary",
                  !.n = SummaryRows,
                  !.all = agg.top,
                  !.top = NLargest(agg.top, SummaryRows, "freq")]
    /\ UNCHANGED <<dlvars, cachevars, marker, tl, page>>

---------------------------------------------------------------------------
(* Marker radius *)

\* the radius every marker starts from, and the caps of the map renderer
\* and of the timeline renderer
BaseRadius == 6

MapMaxRadius == 60

TimelineMaxRadius == 30

\* the factor the timeline renderer multiplies the logarithm with
TimelineMarkerSize == 3

\* frequencies of aggregated places, from one mention to a million
Frequencies == {1, 2, 3, 4, 5, 8, 20, 150, 3000, 10000, 1000000}

\* values of the marker-size slider (1 to 6), and 0
MarkerSizes == 0..6

\* np.log(freq) in thousandths, rounded down
LnMilli ==
    [f \in Frequencies |->
        CASE f = 1 -> 0       [] f = 2 -> 693      [] f = 3 -> 1098
          [] f = 4 -> 1386    [] f = 5 -> 1609    [] f = 8 -> 2079     [] f = 20 -> 2995
          [] f = 150 -> 5010  [] f = 3000 -> 8006  [] f = 10000 -> 9210
          [] f = 1000000 -> 13815]

RadiusUnclamped(freq, marker_size, max_radius) ==
    BaseRadius * 1000 + LnMilli[freq] * marker_size

\* min(6 + np.log(freq) * marker_size, max_radius), in thousandths
Radius(freq, marker_size, max_radius) ==
    Min(BaseRadius * 1000 + LnMilli[freq] * marker_size, max_radius * 1000)

NoMarker(freq, marker_size) ==
    [renderer |-> "none", freq |-> freq, marker_size |-> marker_size, radius |-> 0]

\* create_map of app.py draws the marker of one place
CreateMapMarkerApp ==
    /\ marker.renderer = "none"
    /\ marker' = [marker EXCEPT
                     !.renderer = "app.create_map",
                     !.radius = Radius(marker.freq, marker.marker_size, MapMaxRadius)]
    /\ UNCHANGED <<dlvars, cachevars, agg, tl, page>>

\* create_map of sqlite_code.py draws the marker of one place
CreateMapMarkerSqlite ==
    /\ marker.renderer = "none"
    /\ marker' = [marker EXCEPT
                     !.renderer = "sqlite_code.create_map",
                     !.radius = Radius(marker.freq, marker.marker_size, MapMaxRadius)]
    /\ UNCHANGED <<dlvars, cachevars, agg, tl, page>>

\* update_timeline_map draws the marker of one mention
TimelineMarker ==
    /\ marker.renderer = "none"
    /\ marker' = [marker EXCEPT
                     !.renderer = "update_timeline_map",
                     !.marker_size = TimelineMarkerSize,
                     !.radius = Radius(marker.freq, TimelineMarkerSize, TimelineMaxRadius)]
    /\ UNCHANGED <<dlvars, cachevars, agg, tl, page>>

---------------------------------------------------------------------------
(* The timeline tab *)

\* the bounds update_year clamps to, which are the slider's min and max
FirstYear == 1814

LastYear == 1905

\* values of the place-persistence slider (1 to 10)
Persistences == {1, 5, 10}

VizTypes == {"cumulative", "slice"}

\* the rows update_filtered_data stored as filtered-data: document 1 with
\* two mentions, every other document with one
TimelinePlaces ==
    PlaceTable([i \in DocIds |-> IF i = 1
                                 THEN << [token |-> "Bergen", freq |-> 1],
                                         [token |-> "Oslo", freq |-> 3] >>
                                 ELSE << [token |-> "Oslo", freq |-> 5] >>], 1)

\* places_df.merge(corpus_df[['dhlabid', 'year']], on='dhlabid'): each row
\* of places_df with the year of every metadata row of its document
RECURSIVE Merge(_, _)
Merge(places_df, corpus_df) ==
    IF places_df = <<>> THEN <<>>
    ELSE LET p == Head(places_df)
             m == SelectSeq(corpus_df, LAMBDA r : r.dhlabid = p.dhlabid)
         IN  [i \in DOMAIN m |->
                 [dhlabid |-> p.dhlabid, token |-> p.token, freq |-> p.freq,
                  year |-> m[i].year]]
             \o Merge(Tail(places_df), corpus_df)

\* the row filter of update_timeline_map; a comparison with a missing year
\* is false
InFrameOpenWindow(row, viz_type, current_year, persistence) ==
    IF viz_type = "cumulative"
    THEN \E y \in row.year : y <= current_year
    ELSE LET year_start == current_year - persistence + 1
         IN  \E y \in row.year : y > year_start /\ y <= current_year

InFrame(row, viz_type, current_year, persistence) ==
    IF viz_type = "cumulative"
    THEN \E y \in row.year : y <= current_year
    ELSE LET year_start == current_year - persistence + 1
         IN  \E y \in row.year : y >= year_start /\ y <= current_year

\* the larger of two fractions <<numerator, denominator>>, denominators
\* positive
MaxFraction(a, b) == IF a[1] * b[2] >= b[1] * a[2] THEN a ELSE b

OpacityNoFloor(viz_type, years_old, persistence) ==
    IF viz_type = "cumulative" THEN <<1, 1>>
    ELSE <<persistence - years_old, persistence>>

\* 1.0 if viz_type == 'cumulative' else max(0.3, 1 - years_old / persistence),
\* as a fraction
Opacity(viz_type, years_old, persistence) ==
    IF viz_type = "cumulative" THEN <<1, 1>>
    ELSE MaxFraction(<<3, 10>>, <<persistence - years_old, persistence>>)

\* the markers update_timeline_map adds, one per row of filtered_df
TimelineMarkers(filtered_df, viz_type, current_year, persistence) ==
    [i \in DOMAIN filtered_df |->
        LET place == filtered_df[i]
            y == CHOOSE v \in place.year : TRUE
        IN  [dhlabid |-> place.dhlabid, token |-> place.token, freq |-> place.freq,
             year |-> y,
             opacity |-> Opacity(viz_type, current_year - y, persistence),
             radius |-> Radius(place.freq, TimelineMarkerSize, TimelineMaxRadius)]]

NoFrame == [viz_type |-> "none", persistence |-> 0, year |-> 0, markers |-> <<>>]

\* the tab once the page is loaded, the slider at year: the initial call of
\* update_year (nothing triggered) has set the button's label to "Play"
TimelineAt(year) ==
    [year |-> year, play_state |-> "Play", frame |-> NoFrame]

\* update_year, triggered by the prev-year button
PressPrev ==
    /\ tl.frame = NoFrame
    /\ LET new_year == IF tl.year - 1 >= FirstYear THEN tl.year - 1 ELSE FirstYear
       IN  tl' = [tl EXCEPT !.year = new_year]
    /\ UNCHANGED <<dlvars, cachevars, agg, marker, page>>

\* update_year, triggered by the next-year button
PressNext ==
    /\ tl.frame = NoFrame
    /\ LET new_year == IF tl.year + 1 <= LastYear THEN tl.year + 1 ELSE LastYear
       IN  tl' = [tl EXCEPT !.year = new_year]
    /\ UNCHANGED <<dlvars, cachevars, agg, marker, page>>

\* update_year, triggered by the play button: the label toggles between
\* "Play" (paused) and "Pause" (playing), the year is returned as it is
PressPlay ==
    /\ tl.frame = NoFrame
    /\ tl' = [tl EXCEPT !.play_state = IF tl.play_state = "Play" THEN "Pause" ELSE "Play"]
    /\ UNCHANGED <<dlvars, cachevars, agg, marker, page>>

\* update_timeline_map for the slider's year: metadata of the documents of
\* the rows, merge, filter, one marker per row left
UpdateTimelineMap ==
    /\ dl = "ready"
    /\ tl.frame = NoFrame
    /\ \E viz_type \in VizTypes, persistence \in Persistences :
         LET places_df == places
             all_dhlabids == SortedSeq({r.dhlabid : r \in Range(places_df)})
             r == GetMetadataForDhlabids(all_dhlabids)
             merged_df == Merge(places_df, r.df.rows)
             filtered_df == SelectSeq(merged_df,
                               LAMBDA row : InFrame(row, viz_type, tl.year, persistence))
         IN  /\ r.status = "ok"
             /\ tl' = [tl EXCEPT !.frame =
                         [viz_type |-> viz_type, persistence |-> persistence,
                          year |-> tl.year,
                          markers |-> TimelineMarkers(filtered_df, viz_type, tl.year,
                                                      persistence)]]
    /\ UNCHANGED <<dlvars, cachevars, agg, marker, page>>

\* the frame is shown; the tab takes the next input
ShowFrame ==
    /\ tl.frame # NoFrame
    /\ tl' = [tl EXCEPT !.frame = NoFrame]
    /\ UNCHANGED <<dlvars, cachevars, agg, marker, page>>

---------------------------------------------------------------------------
(* The page of sqlite_code.py: the filtered-data store and its renderers *)

\* What an iframe shows.  html "" is the empty string; "folium" is the
\* saved HTML of a folium map with the markers given.
Blank == [html |-> "", markers |-> <<>>]

Folium(markers) == [html |-> "folium", markers |-> markers]

\* create_popup_html(place, place_books): the token, the modern name, the
\* frequency, and a table with one row for the first book of place_books
CreatePopupHtml(place, place_books) ==
    [token |-> place.token, modern_name |-> place.modern_name, freq |-> place.freq,
     books |-> IF place_books = <<>> THEN <<>> ELSE <<place_books[1].dhlabid>>]

\* create_map() of make_map in sqlite_code.py: one marker per row of
\* significant_places, its popup made from the metadata rows of the row's
\* dhlabid
CreateMapSqlite(significant_places, corpus_df) ==
    Folium([i \in DOMAIN significant_places |->
               LET place == significant_places[i]
                   place_books == SelectSeq(corpus_df,
                                      LAMBDA b : b.dhlabid = place.dhlabid)
               IN  CreatePopupHtml(place, place_books)])

\* make_map(significant_places, corpus_df, basemap, marker_size) of
\* sqlite_code.py: center and zoom are None
MakeMapSqlite(cache, significant_places, corpus_df, basemap, marker_size) ==
    GetCachedMapHtml(cache,
        CacheKey(significant_places, basemap, marker_size, NoView.center, NoView.zoom),
        CreateMapSqlite(significant_places, corpus_df), FALSE)

\* the values in order of first appearance
RECURSIVE Unique(_)
Unique(l) ==
    IF l = <<>> THEN <<>>
    ELSE <<Head(l)>> \o Unique(SelectSeq(Tail(l), LAMBDA x : x # Head(l)))

\* update_map(raw_json, basemap, marker_size, max_places) of sqlite_code.py;
\* raw_json is the store's value: {} for None, {rows} for a frame
UpdateMap(cache, raw_json, basemap, marker_size, max_places) ==
    IF raw_json = {}
    THEN [status |-> "ok", cache |-> cache, html |-> Blank]
    ELSE LET raw_places == CHOOSE rows \in raw_json : TRUE
             place_counts == NLargest(AggregateMapSqlite(raw_places), max_places, "freq")
             all_dhlabids == Unique([i \in DOMAIN place_counts |->
                                        place_counts[i].dhlabid[1]])
             c == GetMetadataForDhlabids(all_dhlabids)
             place_rows == [i \in DOMAIN place_counts |->
                              [place_counts[i] EXCEPT !.dhlabid = @[1]]]
             r == MakeMapSqlite(cache, place_rows, c.df.rows, basemap, marker_size)
         IN  IF c.status = "raise"
             THEN [status |-> "raise", cache |-> cache, html |-> Blank]
             ELSE [status |-> r.status, cache |-> r.cache, html |-> r.html]

\* the heat layer: one point per row, weighted freq * intensity
HeatData(places_df, intensity) ==
    [i \in DOMAIN places_df |->
        [lat |-> places_df[i].lat, weight |-> places_df[i].freq * intensity]]

\* create_heatmap(places_df, intensity, ...)
CreateHeatmap(places_df, intensity) ==
    IF places_df = <<>> THEN Blank ELSE Folium(HeatData(places_df, intensity))

\* update_heatmap(places_json, intensity, ...)
UpdateHeatmap(places_json, intensity) ==
    IF places_json = {} THEN Blank
    ELSE LET places_df == CHOOSE rows \in places_json : TRUE
         IN  Folium(HeatData(places_df, intensity))

\* update_timeline_map(places_json, viz_type, current_year, persistence,
\* basemap): "" without stored rows and for a window without rows
UpdateTimelineMapHtml(places_json, viz_type, current_year, persistence) ==
    IF places_json = {}
    THEN [status |-> "ok", html |-> Blank]
    ELSE LET places_df == CHOOSE rows \in places_json : TRUE
             all_dhlabids == Unique([i \in DOMAIN places_df |-> places_df[i].dhlabid])
             c == GetMetadataForDhlabids(all_dhlabids)
             merged_df == Merge(places_df, c.df.rows)
             filtered_df == SelectSeq(merged_df,
                               LAMBDA row : InFrame(row, viz_type, current_year,
                                                    persistence))
         IN  IF c.status = "raise" THEN [status |-> "raise", html |-> Blank]
             ELSE IF filtered_df = <<>> THEN [status |-> "ok", html |-> Blank]
             ELSE [status |-> "ok",
                   html |-> Folium(TimelineMarkers(filtered_df, viz_type, current_year,
                                                   persistence))]

\* the renderers of the module
Renderers == {"update_map", "create_heatmap", "update_heatmap", "update_timeline_map"}

\* the callbacks main() registers that read the filtered-data store
StoreCallbacks == {"update_map", "update_timeline_map"}

HeatmapIntensity == 3

\* The page: the filter changes so far, how the last run of
\* update_filtered_data ended, its sample size and selected places, the
\* ids it got from the filter and those it
\* retrieved places for, the filtered-data store ({} for None), the
\* renderers still to run, and the srcDoc each renderer returned last.
PageWith(filtered_data, pending) ==
    [changes |-> 0, status |-> "none", sample_size |-> 0, places_selected |-> <<>>,
     filtered_ids |-> <<>>, retrieved |-> FALSE, place_ids |-> <<>>,
     filtered_data |-> filtered_data, pending |-> pending,
     srcDoc |-> [r \in Renderers |-> Blank]]

\* the page as the layout creates it: the store empty, every srcDoc ''
NoPage == PageWith({}, {})

Rendered(r, html) ==
    page' = [page EXCEPT !.pending = @ \ {r}, !.srcDoc[r] = html]

\* update_filtered_data(years, categories, authors, titles, places,
\* sample_size), f being what get_filtered_corpus_ids returned: the ids
\* the filter gave, whether places were retrieved and for which ids, and the
\* value for the filtered-data store ({} is None).  An exception of the data
\* layer ends the callback.
UpdateFilteredData(f, places_selected) ==
    LET filtered_ids == f.value
        n == IF f.status = "ok" /\ filtered_ids # <<>> /\ places_selected # <<>>
             THEN FilterByPlaces(filtered_ids, places_selected)
             ELSE [status |-> f.status, exc |-> f.exc, value |-> filtered_ids,
                   statements |-> <<>>]
        p == IF n.status = "ok" /\ n.value # <<>>
             THEN GetPlacesForDhlabids(n.value)
             ELSE Return(EmptyFrame, <<>>)
    IN  IF f.status = "raise" \/ n.status = "raise" \/ p.status = "raise"
        THEN [status |-> "raise",
              exc |-> IF f.status = "raise" THEN f.exc
                      ELSE IF n.status = "raise" THEN n.exc ELSE p.exc,
              filtered_ids |-> filtered_ids, retrieved |-> FALSE, place_ids |-> <<>>,
              data |-> {}]
        ELSE [status |-> "ok", exc |-> "",
              filtered_ids |-> filtered_ids,
              retrieved |-> n.value # <<>>, place_ids |-> n.value,
              data |-> IF p.df.rows = <<>> THEN {} ELSE {p.df.rows}]

\* changes of the filter inputs followed on one page
MaxFilterChanges == 2

\* update_filtered_data runs for a change of the filter inputs (the
\* categories, the places and the sample size change; years, authors and
\* titles stay unset).  When it returns, the store is set and the callbacks
\* that read the store are due; when it raises, no output changes.
RunUpdateFilteredData ==
    /\ dl = "ready"
    /\ page.pending = {}
    /\ page.changes < MaxFilterChanges
    /\ \E categories \in CategorySets, places_selected \in TokenLists,
          sample_size \in SampleSizes :
         \E f \in GetFilteredCorpusIds(NoFilter.years, categories, NoFilter.authors,
                                       NoFilter.titles, sample_size) :
            LET r == UpdateFilteredData(f, places_selected)
            IN  page' = [page EXCEPT
                           !.changes = @ + 1,
                           !.status = r.status,
                           !.sample_size = sample_size,
                           !.places_selected = places_selected,
                           !.filtered_ids = r.filtered_ids,
                           !.retrieved = r.retrieved,
                           !.place_ids = r.place_ids,
                           !.filtered_data = IF r.status = "ok" THEN r.data ELSE @,
                           !.pending = IF r.status = "ok" THEN StoreCallbacks ELSE @]
    /\ UNCHANGED <<dlvars, cachevars, agg, marker, tl>>

\* update_map runs on the store
RunUpdateMap ==
    /\ dl = "ready"
    /\ "update_map" \in page.pending
    /\ \E max_places \in MaxPlacesValues :
         LET r == UpdateMap(map_cache, page.filtered_data, "OpenStreetMap.Mapnik", 3,
                            max_places)
         IN  /\ r.status = "ok"
             /\ map_cache' = r.cache
             /\ Rendered("update_map", r.html)
    /\ UNCHANGED <<program, cached_data, last, thr, dlvars, agg, marker, tl>>

\* create_heatmap runs on the stored frame, or on an empty frame
RunCreateHeatmap ==
    /\ "create_heatmap" \in page.pending
    /\ LET places_df == IF page.filtered_data = {} THEN <<>>
                        ELSE CHOOSE rows \in page.filtered_data : TRUE
       IN  Rendered("create_heatmap", CreateHeatmap(places_df, HeatmapIntensity))
    /\ UNCHANGED <<dlvars, cachevars, agg, marker, tl>>

\* update_heatmap runs on the store
RunUpdateHeatmap ==
    /\ "update_heatmap" \in page.pending
    /\ Rendered("update_heatmap", UpdateHeatmap(page.filtered_data, HeatmapIntensity))
    /\ UNCHANGED <<dlvars, cachevars, agg, marker, tl>>

\* update_timeline_map runs on the store, for the slider's year
RunUpdateTimelineMap ==
    /\ dl = "ready"
    /\ "update_timeline_map" \in page.pending
    /\ \E viz_type \in VizTypes, persistence \in Persistences :
         LET r == UpdateTimelineMapHtml(page.filtered_data, viz_type, tl.year,
                                        persistence)
         IN  /\ r.status = "ok"
             /\ Rendered("update_timeline_map", r.html)
    /\ UNCHANGED <<dlvars, cachevars, agg, marker, tl>>

---------------------------------------------------------------------------
(* The page of app.py: the filtered-corpus store and the map *)

\* interdependent_filters(years, categories, authors, titles, places) on
\* corpus_df, titles and places unset: the value for the filtered-corpus
\* store, {} being the empty list it returns for an empty result
InterdependentFilters(corpus_df, years, categories, authors) ==
    LET filtered_corpus ==
            SelectSeq(corpus_df, LAMBDA r :
                /\ years # <<>> => \E y \in r.year : years[1] <= y /\ y <= years[2]
                /\ categories # {} => r.category \in categories
                /\ authors # {} => r.author \in authors)
    IN  IF filtered_corpus = <<>> THEN {} ELSE {filtered_corpus}

\* update_map of app.py on a store that holds rows, selected_dhlabids being
\* the sample drawn: the rank-1 mention rows of the sampled documents are
\* aggregated by name and ranked, the map is made and the cache cleaned
UpdateMapOfApp(cache, subkorpus, selected_dhlabids, view_state, max_places, basemap, marker_size) ==
    LET rows == PlaceRowsFor(Range(selected_dhlabids))
        all_places == AggregateApp(rows)
        significant_places == NLargest(all_places, max_places, "freq")
        r == MakeMap(cache, Request(significant_places, basemap, marker_size, view_state),
                     FALSE)
    IN  [cache |-> CleanMapCache(r.cache), html |-> Folium(r.html.markers)]

\* interdependent_filters runs for a change of the filter inputs (years and
\* categories change); the store is set and update_map is due
RunInterdependentFilters ==
    /\ program = "app.py"
    /\ page.pending = {}
    /\ page.changes < MaxFilterChanges
    /\ \E years \in YearRanges, categories \in CategorySets :
         page' = [page EXCEPT
                     !.changes = @ + 1,
                     !.status = "ok",
                     !.filtered_data =
                         InterdependentFilters(metadata, years, categories, {}),
                     !.pending = {"update_map"}]
    /\ UNCHANGED <<dlvars, cachevars, agg, marker, tl>>

\* update_map of app.py runs on the store: an empty store raises
\* PreventUpdate, which leaves the iframe's srcDoc as it is
RunUpdateMapApp ==
    /\ program = "app.py"
    /\ "update_map" \in page.pending
    /\ IF page.filtered_data = {}
       THEN /\ page' = [page EXCEPT !.pending = @ \ {"update_map"},
                                    !.status = "PreventUpdate"]
            /\ UNCHANGED <<map_cache, cached_data>>
       ELSE LET subkorpus == CHOOSE rows \in page.filtered_data : TRUE
            IN  \E max_books \in MaxBooksValues, max_places \in MaxPlacesValues :
                \E selected_dhlabids \in
                       SampleBooks([i \in DOMAIN subkorpus |-> subkorpus[i].dhlabid],
                                   max_books) :
                   LET r == UpdateMapOfApp(map_cache, subkorpus, selected_dhlabids,
                                           EUROPE_VIEW, max_places,
                                           "OpenStreetMap.Mapnik", 3)
                   IN  /\ cached_data' = GetCachedData(cached_data)
                       /\ map_cache' = r.cache
                       /\ Rendered("update_map", r.html)
    /\ UNCHANGED <<program, last, thr, dlvars, agg, marker, tl>>

---------------------------------------------------------------------------
(* The timeline tab's graph beside its map *)

\* filtered_df.groupby('year').size(): the rows counted per year, the bars
\* of the figure
YearlyPlaces(filtered_df) ==
    LET ys == UNION {r.year : r \in Range(filtered_df)}
    IN  [y \in ys |-> Cardinality({i \in DOMAIN filtered_df : y \in filtered_df[i].year})]

\* the figure the layout's dcc.Graph starts with, and the {} the callback
\* returns without stored rows
NoFigure == [kind |-> "empty", bars |-> <<>>]

\* the row filter of update_timeline_graph: the time slice is the five
\* years that end at current_year
InGraphFrame(row, viz_type, current_year) ==
    IF viz_type = "cumulative"
    THEN \E y \in row.year : y <= current_year
    ELSE LET year_start == current_year - 5 + 1
         IN  \E y \in row.year : y >= year_start /\ y <= current_year

\* update_timeline_graph(places_json, current_year, viz_type)
UpdateTimelineGraph(places_json, current_year, viz_type) ==
    IF places_json = {}
    THEN [status |-> "ok", figure |-> NoFigure]
    ELSE LET places_df == CHOOSE rows \in places_json : TRUE
             all_dhlabids == Unique([i \in DOMAIN places_df |-> places_df[i].dhlabid])
             c == GetMetadataForDhlabids(all_dhlabids)
             merged_df == Merge(places_df, c.df.rows)
             filtered_df == SelectSeq(merged_df,
                               LAMBDA row : InGraphFrame(row, viz_type, current_year))
         IN  IF c.status = "raise" THEN [status |-> "raise", figure |-> NoFigure]
             ELSE [status |-> "ok",
                   figure |-> [kind |-> "Bar", bars |-> YearlyPlaces(filtered_df)]]

\* the callbacks of the tab that take the year and the type as Input
TabCallbacks == {"update_timeline_map", "update_timeline_graph"}

\* the tab with the values of its controls and the figure of its graph
TabWith(year, viz_type, persistence) ==
    [year |-> year, play_state |-> "Play", frame |-> NoFrame,
     viz_type |-> viz_type, persistence |-> persistence, figure |-> NoFigure]

\* years the slider is moved to: the layout's 1850, and years whose five-
\* and ten-year windows cut the corpus differently
TabYears == {1850, 1852, 1856}

\* the user moves the year slider, picks the type or moves the persistence
\* slider: the callbacks that take a changed control as Input are due
ChangeTimelineInputs ==
    /\ page.pending = {}
    /\ page.changes < MaxFilterChanges
    /\ \E year \in TabYears, viz_type \in VizTypes, persistence \in Persistences :
         /\ <<year, viz_type, persistence>> # <<tl.year, tl.viz_type, tl.persistence>>
         /\ tl' = [tl EXCEPT !.year = year, !.viz_type = viz_type,
                             !.persistence = persistence]
         /\ page' = [page EXCEPT
                        !.changes = @ + 1,
                        !.pending =
                            {"update_timeline_map"} \cup
                            (IF year # tl.year \/ viz_type # tl.viz_type
                             THEN {"update_timeline_graph"} ELSE {})]
    /\ UNCHANGED <<dlvars, cachevars, agg, marker>>

\* update_timeline_map runs on the store with the values of the controls
TimelineMapCallback ==
    /\ dl = "ready"
    /\ "update_timeline_map" \in page.pending
    /\ LET r == UpdateTimelineMapHtml(page.filtered_data, tl.viz_type, tl.year,
                                      tl.persistence)
       IN  /\ r.status = "ok"
           /\ Rendered("update_timeline_map", r.html)
    /\ UNCHANGED <<dlvars, cachevars, agg, marker, tl>>

\* update_timeline_graph runs on the store with the year and the type
TimelineGraphCallback ==
    /\ dl = "ready"
    /\ "update_timeline_graph" \in page.pending
    /\ LET r == UpdateTimelineGraph(page.filtered_data, tl.year, tl.viz_type)
       IN  /\ r.status = "ok"
           /\ tl' = [tl EXCEPT !.figure = r.figure]
           /\ page' = [page EXCEPT !.pending = @ \ {"update_timeline_graph"}]
    /\ UNCHANGED <<dlvars, cachevars, agg, marker>>

---------------------------------------------------------------------------
(* Specifications *)

InitDataLayer ==
    /\ dl = "new"
    /\ cached_lists = NoLists
    /\ corpus_stats = NoStats
    /\ ret = NoCall
    /\ statements = <<>>

\* no map is served
InitNoMap ==
    /\ program = "none"
    /\ map_cache = <<>>
    /\ last = NoRequest
    /\ thr = [t \in Threads |-> NoThread]
    /\ cached_data = NotLoaded

\* no aggregation, no marker, the timeline tab as the layout creates it
InitNoView ==
    /\ agg = NoAggregation(<<>>)
    /\ marker = NoMarker(1, 0)
    /\ page = NoPage
    /\ tl = TimelineAt(1850)

\* the filter over every metadata store, the store's ceiling at its default
InitFilter ==
    /\ metadata \in MetadataStores
    /\ places = <<>>
    /\ max_variable_number = DefaultCeiling
    /\ InitDataLayer
    /\ InitNoMap
    /\ InitNoView

NextFilter == Construct \/ CallGetFilteredCorpusIds \/ ReturnToCaller

SpecFilter == InitFilter /\ [][NextFilter]_vars

\* batched retrieval over every place store, the ceiling scaled with the
\* batch size: a default batch fits, with one parameter to spare
InitBatch ==
    /\ metadata = FixedMetadata
    /\ places \in PlaceStores
    /\ max_variable_number = BatchSize + 1
    /\ InitDataLayer
    /\ InitNoMap
    /\ InitNoView

NextBatch ==
    \/ Construct
    \/ CallGetPlacesForDhlabids
    \/ CallGetMetadataForDhlabids
    \/ CallFilterByPlaces
    \/ ReturnToCaller

SpecBatch == InitBatch /\ [][NextBatch]_vars

\* the map requests of app.py, one after the other, on an empty cache
InitApp ==
    /\ program = "app.py"
    /\ map_cache = <<>>
    /\ last = NoRequest
    /\ thr = [t \in Threads |-> NoThread]
    /\ cached_data = LoadedAtImport
    /\ metadata = <<>>
    /\ places = <<>>
    /\ max_variable_number = DefaultCeiling
    /\ InitDataLayer
    /\ InitNoView

NextApp == UpdateMapApp \/ SendResponse

SpecApp == InitApp /\ [][NextApp]_vars

\* the map requests of sqlite_code.py, one after the other
InitSqlite ==
    /\ program = "sqlite_code.py"
    /\ map_cache = <<>>
    /\ last = NoRequest
    /\ thr = [t \in Threads |-> NoThread]
    /\ cached_data = NotLoaded
    /\ metadata = <<>>
    /\ places = <<>>
    /\ max_variable_number = DefaultCeiling
    /\ InitDataLayer
    /\ InitNoView

NextSqlite == UpdateMapSqlite \/ SendResponse

SpecSqlite == InitSqlite /\ [][NextSqlite]_vars

\* two threads serve map requests of app.py at the same time, from a cache
\* that earlier requests have filled
InitThreads ==
    /\ program = "app.py"
    /\ map_cache \in EarlierCaches
    /\ last = NoRequest
    /\ thr = [t \in Threads |-> NoThread]
    /\ cached_data = LoadedAtImport
    /\ metadata = <<>>
    /\ places = <<>>
    /\ max_variable_number = DefaultCeiling
    /\ InitDataLayer
    /\ InitNoView

NextThreads ==
    \E t \in Threads :
        \/ StartRequest(t)
        \/ CheckKey(t)
        \/ RenderMap(t)
        \/ StoreKey(t)
        \/ ReadKey(t)
        \/ CheckSize(t)
        \/ ClearCache(t)
        \/ EndRequest(t)

SpecThreads == InitThreads /\ [][NextThreads]_vars

\* the aggregations over every list of mention rows
InitAggregate ==
    /\ agg \in {NoAggregation(m) : m \in MentionLists}
    /\ marker = NoMarker(1, 0)
    /\ page = NoPage
    /\ tl = TimelineAt(1850)
    /\ metadata = <<>>
    /\ places = <<>>
    /\ max_variable_number = DefaultCeiling
    /\ InitDataLayer
    /\ InitNoMap

NextAggregate ==
    \/ UpdateMapAggregateApp
    \/ UpdateFilteredDataAggregate
    \/ UpdateMapAggregateSqlite
    \/ UpdatePlaceSummary

SpecAggregate == InitAggregate /\ [][NextAggregate]_vars

\* the marker radius over every frequency and marker size
InitRadius ==
    /\ marker \in {NoMarker(f, s) : f \in Frequencies, s \in MarkerSizes}
    /\ agg = NoAggregation(<<>>)
    /\ page = NoPage
    /\ tl = TimelineAt(1850)
    /\ metadata = <<>>
    /\ places = <<>>
    /\ max_variable_number = DefaultCeiling
    /\ InitDataLayer
    /\ InitNoMap

NextRadius == CreateMapMarkerApp \/ CreateMapMarkerSqlite \/ TimelineMarker

SpecRadius == InitRadius /\ [][NextRadius]_vars

\* the year span _initialize_cache computes: (min_year, max_year) of the
\* dated documents
YearSpan == CorpusStats

InSpan(year) ==
    /\ \A lo \in YearSpan.min_year : lo <= year
    /\ \A hi \in YearSpan.max_year : year <= hi
    /\ YearSpan.min_year # {}

\* the timeline tab over every corpus with a dated document, the data layer
\* constructed, the slider at a year of the corpus's span
InitTimeline ==
    /\ metadata \in MetadataStores
    /\ places = TimelinePlaces
    /\ max_variable_number = DefaultCeiling
    /\ dl = "ready"
    /\ cached_lists = CachedLists
    /\ corpus_stats = CorpusStats
    /\ ret = [NoCall EXCEPT !.op = "__init__"]
    /\ statements = InitializeCacheStatements
    /\ tl \in {TimelineAt(y) : y \in {z \in FirstYear..LastYear : InSpan(z)}}
    /\ agg = NoAggregation(<<>>)
    /\ marker = NoMarker(1, 0)
    /\ page = NoPage
    /\ InitNoMap

NextTimeline ==
    \/ PressPrev
    \/ PressNext
    \/ PressPlay
    \/ UpdateTimelineMap
    \/ ShowFrame

SpecTimeline == InitTimeline /\ [][NextTimeline]_vars

\* The play control: the tab over one corpus, the slider at any year.  A
\* callback the server runs returns, so a frame under way is shown; nothing
\* obliges the user to press a button or to ask for a frame.
InitPlay ==
    /\ metadata = FixedMetadata
    /\ places = TimelinePlaces
    /\ max_variable_number = DefaultCeiling
    /\ dl = "ready"
    /\ cached_lists = CachedLists
    /\ corpus_stats = CorpusStats
    /\ ret = [NoCall EXCEPT !.op = "__init__"]
    /\ statements = InitializeCacheStatements
    /\ tl \in {TimelineAt(y) : y \in FirstYear..LastYear}
    /\ agg = NoAggregation(<<>>)
    /\ marker = NoMarker(1, 0)
    /\ page = NoPage
    /\ InitNoMap

SpecPlay ==
    /\ InitPlay
    /\ [][NextTimeline]_vars
    /\ WF_vars(ShowFrame)

\* The renderers as functions of the store: every renderer is run once on a
\* store that holds nothing or a frame of one or two mention rows, the
\* timeline's slider before, at and after the first document's year.
StoredFrames == {{}} \cup {{m} : m \in {l \in MentionLists : Len(l) <= 2}}

InitRender ==
    /\ metadata = FixedMetadata
    /\ places = <<>>
    /\ max_variable_number = DefaultCeiling
    /\ dl = "ready"
    /\ cached_lists = CachedLists
    /\ corpus_stats = CorpusStats
    /\ ret = [NoCall EXCEPT !.op = "__init__"]
    /\ statements = InitializeCacheStatements
    /\ page \in {PageWith(d, Renderers) : d \in StoredFrames}
    /\ tl \in {TimelineAt(y) : y \in {1849, 1850, 1852}}
    /\ agg = NoAggregation(<<>>)
    /\ marker = NoMarker(1, 0)
    /\ InitNoMap

NextRender ==
    \/ RunUpdateMap
    \/ RunCreateHeatmap
    \/ RunUpdateHeatmap
    \/ RunUpdateTimelineMap

SpecRender == InitRender /\ [][NextRender]_vars


\* the batching loop alone: every id list with every batch size, over a
\* places table in which every document has rows
InitLoop ==
    /\ metadata = FixedMetadata
    /\ places = TimelinePlaces
    /\ max_variable_number = DefaultCeiling
    /\ dl = "ready"
    /\ cached_lists = CachedLists
    /\ corpus_stats = CorpusStats
    /\ ret = [NoCall EXCEPT !.op = "__init__"]
    /\ statements = InitializeCacheStatements
    /\ InitNoMap
    /\ InitNoView

NextLoop == CallExecuteBatchedQuery \/ ReturnToCaller

SpecLoop == InitLoop /\ [][NextLoop]_vars

\* places tables in which the first n documents have rows
StartupPlaces ==
    {PlaceTable([i \in DocIds |-> IF i <= n THEN << [token |-> "Oslo", freq |-> 5] >>
                                  ELSE <<>>], 1) : n \in 0..NumDocs}

\* The startup caches: a DataLayer is constructed over a places table and
\* called in every way, its caches read between the calls; beside it
\* app.py's get_cached_data is called at import and again by update_map.
InitStartup ==
    /\ metadata = FixedMetadata
    /\ places \in StartupPlaces
    /\ max_variable_number = DefaultCeiling
    /\ InitDataLayer
    /\ InitNoMap
    /\ InitNoView

NextStartup ==
    \/ Construct
    \/ CallGetCorpusStats
    \/ CallGetUniqueValues
    \/ CallGetFilteredCorpusIds
    \/ CallGetPlacesForDhlabids
    \/ CallGetMetadataForDhlabids
    \/ CallFilterByPlaces
    \/ CallGetCachedData
    \/ ReturnToCaller

SpecStartup == InitStartup /\ [][NextStartup]_vars

\* table places with the rows of the mention pool: documents 1 to 3 have
\* rows, the others none
PagePlaces ==
    << Mention(1, "Kristiania",  "Oslo",   "P", 5, 59),
       Mention(2, "Kristiania",  "Oslo",   "P", 2, 59),
       Mention(2, "Bergen",      "Bergen", "P", 4, 60),
       Mention(3, "Bergen",      "Bergen", "P", 5, 60) >>

\* The page of sqlite_code.py: the filter inputs change, update_filtered_data
\* sets the store, update_map and update_timeline_map follow.
InitPage ==
    /\ metadata = FixedMetadata
    /\ places = PagePlaces
    /\ max_variable_number = DefaultCeiling
    /\ dl = "ready"
    /\ cached_lists = CachedLists
    /\ corpus_stats = CorpusStats
    /\ ret = [NoCall EXCEPT !.op = "__init__"]
    /\ statements = InitializeCacheStatements
    /\ InitNoMap
    /\ InitNoView

NextPage ==
    \/ RunUpdateFilteredData
    \/ RunUpdateMap
    \/ RunUpdateTimelineMap

SpecPage == InitPage /\ [][NextPage]_vars

\* The page of app.py over a corpus of dated documents: the filter inputs
\* change, interdependent_filters sets the store, update_map follows.
InitAppPage ==
    /\ program = "app.py"
    /\ map_cache = <<>>
    /\ last = NoRequest
    /\ thr = [t \in Threads |-> NoThread]
    /\ cached_data = LoadedAtImport
    /\ metadata = FixedMetadata
    /\ places = PagePlaces
    /\ max_variable_number = DefaultCeiling
    /\ InitDataLayer
    /\ InitNoView

NextAppPage == RunInterdependentFilters \/ RunUpdateMapApp

SpecAppPage == InitAppPage /\ [][NextAppPage]_vars

\* The timeline tab with its map and its graph: the store holds the rows
\* of a filter, or nothing; the controls have the layout's values and the
\* initial calls of both callbacks are due.
InitTab ==
    /\ metadata = FixedMetadata
    /\ places = TimelinePlaces
    /\ max_variable_number = DefaultCeiling
    /\ dl = "ready"
    /\ cached_lists = CachedLists
    /\ corpus_stats = CorpusStats
    /\ ret = [NoCall EXCEPT !.op = "__init__"]
    /\ statements = InitializeCacheStatements
    /\ page \in {PageWith(d, TabCallbacks) : d \in {{}, {TimelinePlaces}}}
    /\ tl = TabWith(1850, "cumulative", 5)
    /\ agg = NoAggregation(<<>>)
    /\ marker = NoMarker(1, 0)
    /\ InitNoMap

NextTab ==
    \/ ChangeTimelineInputs
    \/ TimelineMapCallback
    \/ TimelineGraphCallback

SpecTab == InitTab /\ [][NextTab]_vars

---------------------------------------------------------------------------
(* Properties of the data layer *)

IsRetrieval == ret.op \in {"get_places_for_dhlabids", "get_metadata_for_dhlabids"}

\* the rows of the unbounded single query ... WHERE dhlabid IN (ids)
SingleQueryRows(op, ids) ==
    IF op = "get_places_for_dhlabids"
    THEN SelectSeq(places, LAMBDA r : \E i \in DOMAIN ids : r.dhlabid = ids[i])
    ELSE SelectSeq(metadata, LAMBDA r : \E i \in DOMAIN ids : r.dhlabid = ids[i])

C3_NoStatementOverCeiling ==
    \A i \in DOMAIN statements : statements[i].nparams <= max_variable_number

\* the documents of ids with a mention of one of tokens
DocsMentioning(ids, tokens) ==
    {d \in Range(ids) :
        \E i \in DOMAIN places :
            places[i].dhlabid = d /\ places[i].token \in Range(tokens)}

\* C4: filter_by_places with non-empty ids and tokens completes and returns
\* exactly the ids with a mention of one of the tokens
C4_FilterByPlacesNarrows ==
    (ret.op = "filter_by_places" /\ Len(ret.ids) > 0 /\ Len(ret.tokens) > 0) =>
        /\ ret.status = "ok"
        /\ Range(ret.value) = DocsMentioning(ret.ids, ret.tokens)

\* C5: with an empty id list or an empty token list the query operations
\* return an empty result, issue no statement and raise nothing
C5_EmptyInputsShortCircuit ==
    (\/ IsRetrieval /\ Len(ret.ids) = 0
     \/ ret.op = "filter_by_places" /\ (Len(ret.ids) = 0 \/ Len(ret.tokens) = 0)) =>
        /\ ret.status = "ok"
        /\ ret.rows = <<>>
        /\ ret.value = <<>>
        /\ statements = <<>>

\* the claim's predicate on one document, stated over the filter of the call
SatisfiesFilter(r, f) ==
    /\ f.years # <<>> => (r.year # {} /\ \A y \in r.year : f.years[1] <= y /\ y <= f.years[2])
    /\ f.categories # {} => r.category \in f.categories
    /\ f.authors # {} => r.author \in f.authors
    /\ f.titles # {} => r.title \in f.titles

\* C10: without sampling, get_filtered_corpus_ids completes and returns
\* exactly the documents that satisfy every set predicate, each once; with
\* sampling it returns none that fails one
C10_FilterIsConjunction ==
    ret.op = "get_filtered_corpus_ids" =>
        LET sat == {metadata[i].dhlabid : i \in {j \in DOMAIN metadata :
                                                   SatisfiesFilter(metadata[j], ret.filter)}}
        IN  /\ ret.status = "ok"
            /\ \A i, j \in DOMAIN ret.value : i # j => ret.value[i] # ret.value[j]
            /\ Range(ret.value) \subseteq sat
            /\ ret.filter.sample_size = 0 => Range(ret.value) = sat

\* a year range and an author set narrow the corpus to some documents but
\* not all, and a document whose year is the range's upper bound is kept
C10_Witness ==
    /\ ret.op = "get_filtered_corpus_ids"
    /\ ret.filter.sample_size = 0
    /\ ret.filter.years = <<1850, 1890>>
    /\ ret.filter.authors # {}
    /\ ret.value # <<>>
    /\ Len(ret.value) < NumDocs
    /\ \E i \in DOMAIN ret.value : metadata[ret.value[i]].year = {1890}

\* C11: with no year range, empty sets and no sample size,
\* get_filtered_corpus_ids returns every dhlabid of table metadata exactly
\* once
C11_UnconstrainedReturnsAll ==
    (ret.op = "get_filtered_corpus_ids" /\ ret.filter = NoFilter) =>
        /\ ret.status = "ok"
        /\ Len(ret.value) = Len(metadata)
        /\ \A i \in DOMAIN metadata : Count(ret.value, metadata[i].dhlabid) = 1

\* the unconstrained call has returned from a corpus holding a document
\* with no year beside dated ones
C11_Witness ==
    /\ ret.op = "get_filtered_corpus_ids"
    /\ ret.filter = NoFilter
    /\ Len(ret.value) = NumDocs
    /\ \E i, j \in DOMAIN metadata : metadata[i].year = {} /\ metadata[j].year # {}

\* the dhlabids of the documents that pass the WHERE clauses of the call
QualifyingIds(f) ==
    {metadata[i].dhlabid : i \in {j \in DOMAIN metadata :
        Qualifies(metadata[j], f.years, f.categories, f.authors, f.titles)}}

\* C12: with sample_size set, get_filtered_corpus_ids returns a list without
\* duplicates of qualifying documents, of length min(sample_size, number of
\* qualifying documents)
C12_SampleIsBoundedSubset ==
    (ret.op = "get_filtered_corpus_ids" /\ ret.filter.sample_size # 0) =>
        LET q == QualifyingIds(ret.filter)
        IN  /\ ret.status = "ok"
            /\ Range(ret.value) \subseteq q
            /\ \A i, j \in DOMAIN ret.value : i # j => ret.value[i] # ret.value[j]
            /\ Len(ret.value) = Min(ret.filter.sample_size, Cardinality(q))
            /\ Cardinality(q) < ret.filter.sample_size => Range(ret.value) = q

\* a sample of two has been drawn from three or more qualifying documents
C12_Witness ==
    /\ ret.op = "get_filtered_corpus_ids"
    /\ ret.filter.sample_size = 2
    /\ ret.filter.authors # {}
    /\ Cardinality(QualifyingIds(ret.filter)) >= 3
    /\ Len(ret.value) = 2

\* all of the qualifying documents have been returned because fewer qualify
\* than the sample size
C12_WitnessFewer ==
    /\ ret.op = "get_filtered_corpus_ids"
    /\ ret.filter.sample_size = 2
    /\ Cardinality(QualifyingIds(ret.filter)) = 1
    /\ Len(ret.value) = 1

---------------------------------------------------------------------------
(* Properties of the render cache *)

RequestsOf(prog) == IF prog = "app.py" THEN AppRequests ELSE SqliteRequests

\* what create_map would produce from the inputs of the request
OwnRender(req) ==
    CreateMap(req.places, req.basemap, req.marker_size, req.center, req.zoom)

\* C1: the HTML make_map returns for a request is the one create_map
\* produces from that request's own inputs, also on a cache hit
C1_ReturnsOwnRender ==
    last.status = "ok" => last.html = OwnRender(last.request)

\* a second call with the key of the last request does not call the render
\* function and returns the HTML the last request returned
SecondCallIsHit ==
    \A req \in RequestsOf(program), fails \in BOOLEAN :
        KeyOf(req) = KeyOf(last.request) =>
            LET second == MakeMap(map_cache, req, fails)
            IN  /\ second.status = "ok"
                /\ ~second.called
                /\ second.html = last.html

C7_FullClearAtLimit ==
    [][/\ Cardinality(DOMAIN map_cache') <= MapCacheLimit
       /\ (map_cache' = <<>> \/ DOMAIN map_cache \subseteq DOMAIN map_cache')]_vars

\* C9: a map request whose render raises leaves the cache as it was, the
\* key absent, and the next call with that key calls the render function
C9_FailedRenderStoresNothing ==
    [][last'.status = "raise" =>
          /\ map_cache' = map_cache
          /\ KeyOf(last'.request) \notin DOMAIN map_cache'
          /\ \A fails \in BOOLEAN : MakeMap(map_cache', last'.request, fails).called]_vars

\* a render has raised while the cache held three maps
C9_Witness ==
    /\ last.status = "raise"
    /\ last.called
    /\ Cardinality(DOMAIN map_cache) >= 3

---------------------------------------------------------------------------
(* Properties of the concurrent map requests *)

\* the thread is inside get_cached_map_html
InGetCachedMapHtml(t) == thr[t].pc \in {"check", "render", "store", "read"}

\* C8: two calls of get_cached_map_html that run at the same time with one
\* key never both call the render function, and no call fails because the
\* entry it stored or found was cleared under it
C8_AtomicPerKey ==
    /\ \A t, u \in Threads :
         (/\ t # u
          /\ InGetCachedMapHtml(t) /\ InGetCachedMapHtml(u)
          /\ KeyOf(thr[t].request) = KeyOf(thr[u].request))
         => ~(thr[t].called /\ thr[u].called)
    /\ \A t \in Threads : thr[t].status # "KeyError"

---------------------------------------------------------------------------
(* Properties of the aggregation *)

Aggregations == {"app.update_map", "update_filtered_data", "sqlite_code.update_map"}

\* the aggregation of the routine, before any ranking
AggregateOf(routine, rows) ==
    CASE routine = "app.update_map" -> AggregateApp(rows)
      [] routine = "update_filtered_data" -> AggregateFiltered(rows)
      [] routine = "sqlite_code.update_map" -> AggregateMapSqlite(rows)

\* the mention rows of one (token, feature_class) identity
RowsOfIdentity(rows, token, feature_class) ==
    SelectSeq(rows, LAMBDA r : r.token = token /\ r.feature_class = feature_class)

\* C13: an aggregation holds exactly one record per (token, feature_class)
\* of its mention rows, with the sum of their frequencies and, where the
\* routine counts documents, the number of their distinct documents
C13_OneRecordPerIdentity ==
    agg.routine \in Aggregations =>
        LET ids == {<<r.token, r.feature_class>> : r \in Range(agg.mentions)}
        IN  /\ Len(agg.all) = Cardinality(ids)
            /\ \A id \in ids :
                 LET rows == RowsOfIdentity(agg.mentions, id[1], id[2])
                     recs == {i \in DOMAIN agg.all :
                                 /\ agg.all[i].token = id[1]
                                 /\ agg.all[i].feature_class = id[2]}
                 IN  /\ Cardinality(recs) = 1
                     /\ \A i \in recs :
                          /\ agg.all[i].freq = SumFreq(rows)
                          /\ agg.all[i].doc_count # {} =>
                               agg.all[i].doc_count =
                                 {Cardinality({rows[j].dhlabid : j \in DOMAIN rows})}

\* the totals of a frame: per group key the frequency sum and the count of
\* documents
Totals(routine, frame) ==
    {<<IF routine = "app.update_map" THEN KeyApp(frame[i])
       ELSE IF routine = "update_filtered_data" THEN KeyFiltered(frame[i])
       ELSE KeyMapSqlite(frame[i]),
       frame[i].freq, frame[i].doc_count>> : i \in DOMAIN frame}

Orders(n) ==
    {p \in [1..n -> 1..n] : \A i, j \in 1..n : i # j => p[i] # p[j]}

\* C14: aggregating the mention rows in any other order gives the same
\* frequency sum and the same count of documents for every place
C14_TotalsPermutationInvariant ==
    agg.routine \in Aggregations =>
        \A p \in Orders(Len(agg.mentions)) :
            Totals(agg.routine,
                   AggregateOf(agg.routine, [i \in DOMAIN agg.mentions |-> agg.mentions[p[i]]]))
              = Totals(agg.routine, agg.all)

\* three mention rows of two documents have been aggregated into fewer
\* records than rows
C14_Witness ==
    /\ agg.routine \in Aggregations
    /\ Len(agg.mentions) >= 3
    /\ Len(agg.all) < Len(agg.mentions)
    /\ Cardinality({agg.mentions[i].dhlabid : i \in DOMAIN agg.mentions}) >= 2

\* C15: the count of documents of an aggregated place is at most the number
\* of sampled documents, and the dispersion is at most 1
C15_DispersionAtMostOne ==
    agg.routine \in Aggregations =>
        /\ \A i \in DOMAIN agg.all :
             \A c \in agg.all[i].doc_count : c <= Len(agg.selected)
        /\ \A i \in DOMAIN agg.dispersion : agg.dispersion[i][1] <= agg.dispersion[i][2]

Rankings == {"app.update_map", "sqlite_code.update_map", "update_place_summary"}

\* position of a record in a frame of distinct records
IndexIn(frame, rec) == CHOOSE i \in DOMAIN frame : frame[i] = rec

\* C16: nlargest keeps min(n, rows) records; a record kept has a larger
\* score than a record left out, or the same score and an earlier place in
\* the input; kept records of equal score stay in input order
C16_TopNStable ==
    agg.routine \in Rankings =>
        LET kept == {IndexIn(agg.all, agg.top[i]) : i \in DOMAIN agg.top}
        IN  /\ Len(agg.top) = Min(agg.n, Len(agg.all))
            /\ Range(agg.top) \subseteq Range(agg.all)
            /\ Cardinality(kept) = Len(agg.top)
            /\ \A k \in kept, l \in DOMAIN agg.all \ kept :
                 \/ agg.all[k].freq > agg.all[l].freq
                 \/ agg.all[k].freq = agg.all[l].freq /\ k < l
            /\ \A i, j \in DOMAIN agg.top :
                 (i < j /\ agg.top[i].freq = agg.top[j].freq) =>
                     IndexIn(agg.all, agg.top[i]) < IndexIn(agg.all, agg.top[j])

\* the cut has fallen between two records of equal score
C16_Witness ==
    /\ agg.routine \in Rankings
    /\ Len(agg.top) < Len(agg.all)
    /\ \E i \in DOMAIN agg.top, l \in DOMAIN agg.all :
         /\ agg.all[l] \notin Range(agg.top)
         /\ agg.all[l].freq = agg.top[i].freq

---------------------------------------------------------------------------
(* Properties of the markers and of the timeline *)

\* the cap of the renderer that drew the marker
MaxRadiusOf(renderer) ==
    IF renderer = "update_timeline_map" THEN TimelineMaxRadius ELSE MapMaxRadius

\* C19: the radius of a marker lies between the base radius and the cap of
\* its renderer
C19_RadiusWithinBounds ==
    marker.renderer # "none" =>
        /\ BaseRadius * 1000 <= marker.radius
        /\ marker.radius <= MaxRadiusOf(marker.renderer) * 1000

\* the timeline renderer has capped the radius of a frequent place
C19_Witness ==
    /\ marker.renderer = "update_timeline_map"
    /\ marker.freq >= 3000
    /\ marker.radius = TimelineMaxRadius * 1000

\* the map renderer has drawn a marker between base and cap
C19_WitnessMap ==
    /\ marker.renderer = "app.create_map"
    /\ marker.radius > BaseRadius * 1000
    /\ marker.radius < MapMaxRadius * 1000

\* the year of the document of a mention row
DocYear(dhlabid) == UNION {metadata[i].year : i \in {j \in DOMAIN metadata :
                                                       metadata[j].dhlabid = dhlabid}}

\* the mention rows the claim puts into the frame
WindowRows(viz_type, Y, W) ==
    SelectSeq(places, LAMBDA r :
        \E y \in DocYear(r.dhlabid) :
            IF viz_type = "cumulative" THEN y <= Y ELSE Y - W + 1 <= y /\ y <= Y)

\* C17: the markers of a frame are the mention rows whose document year is
\* at most the current year (cumulative) or within the window of the
\* current year (slice), each once
C17_FrameIsWindow ==
    tl.frame # NoFrame =>
        LET f == tl.frame
            want == WindowRows(f.viz_type, f.year, f.persistence)
        IN  /\ Len(f.markers) = Len(want)
            /\ \A i \in DOMAIN want :
                 /\ f.markers[i].dhlabid = want[i].dhlabid
                 /\ f.markers[i].token = want[i].token
                 /\ f.markers[i].freq = want[i].freq

\* a slice frame of window 5 shows a mention of the window's first year and
\* leaves another mention out
C17_Witness ==
    /\ tl.frame.viz_type = "slice"
    /\ tl.frame.persistence = 5
    /\ \E i \in DOMAIN tl.frame.markers : tl.frame.markers[i].year = tl.frame.year - 4
    /\ Len(tl.frame.markers) < Len(places)

\* equality and order of fractions <<numerator, denominator>>
SameFraction(a, b) == a[1] * b[2] = b[1] * a[2]

AtMostFraction(a, b) == a[1] * b[2] <= b[1] * a[2]

\* C18: a marker of a cumulative frame has opacity 1; a marker of a slice
\* frame has an opacity between 0.3 and 1, 1 for the current year, 0.3 for
\* the year four back at window 5, and max(0.3, 1 - (Y - y) / W) throughout
C18_OpacityFade ==
    tl.frame # NoFrame =>
        \A i \in DOMAIN tl.frame.markers :
            LET m == tl.frame.markers[i]
                Y == tl.frame.year
                W == tl.frame.persistence
            IN  IF tl.frame.viz_type = "cumulative"
                THEN SameFraction(m.opacity, <<1, 1>>)
                ELSE /\ AtMostFraction(<<3, 10>>, m.opacity)
                     /\ AtMostFraction(m.opacity, <<1, 1>>)
                     /\ m.year = Y => SameFraction(m.opacity, <<1, 1>>)
                     /\ (W = 5 /\ m.year = Y - 4) => SameFraction(m.opacity, <<3, 10>>)
                     /\ \/ SameFraction(m.opacity, <<3, 10>>)
                           /\ AtMostFraction(<<W - (Y - m.year), W>>, <<3, 10>>)
                        \/ SameFraction(m.opacity, <<W - (Y - m.year), W>>)
                           /\ AtMostFraction(<<3, 10>>, <<W - (Y - m.year), W>>)

\* a slice frame of window 5 shows a mention four years old at the floor
C18_Witness ==
    /\ tl.frame.viz_type = "slice"
    /\ tl.frame.persistence = 5
    /\ \E i \in DOMAIN tl.frame.markers :
         /\ tl.frame.markers[i].year = tl.frame.year - 4
         /\ tl.frame.markers[i].opacity = <<3, 10>>

\* a slice frame of window 10 shows a mention above the floor and below 1
C18_WitnessFade ==
    /\ tl.frame.viz_type = "slice"
    /\ tl.frame.persistence = 10
    /\ \E i \in DOMAIN tl.frame.markers :
         /\ tl.frame.markers[i].year = tl.frame.year - 5
         /\ tl.frame.markers[i].opacity = <<5, 10>>

\* C20: a press of prev, next or play leaves the year inside the year span
\* of the corpus; prev takes 1 off unless the year is the span's first, next
\* adds 1 unless it is the span's last, and at a bound the year stays
C20_YearClampedToSpan ==
    [][\A lo \in corpus_stats.min_year, hi \in corpus_stats.max_year :
          /\ lo <= tl'.year /\ tl'.year <= hi
          /\ PressPrev => tl'.year = (IF tl.year > lo THEN tl.year - 1 ELSE tl.year)
          /\ PressNext => tl'.year = (IF tl.year < hi THEN tl.year + 1 ELSE tl.year)
          /\ PressPlay => tl'.year = tl.year]_vars

---------------------------------------------------------------------------
(* Properties of the play control *)

\* the button shows "Pause" while the control is playing
Playing == tl.play_state = "Pause"

\* C21: the play control has the two states paused and playing, a press of
\* play flips it, and while it is playing the year advances on its own up to
\* the last year: a control that is playing is later paused or the year has
\* reached the last year
C21_PlayingAdvances ==
    Playing ~> (~Playing \/ tl.year = LastYear)

\* the parts of C21 that are steps: a press of play flips the state and
\* keeps the year, and no step other than a press of prev or next changes
\* the year
PlayFlipsAndYearWaits ==
    [][/\ PressPlay => (tl'.play_state # tl.play_state /\ tl'.year = tl.year)
       /\ tl'.year # tl.year => (PressPrev \/ PressNext)]_vars

---------------------------------------------------------------------------
(* Properties of the renderers *)

\* the rows a renderer was given: none for an empty store
NoInputRows == page.filtered_data = {}

\* C22: a renderer that has run on zero input rows has returned a placeholder
\* that says there is no data; it has not returned the empty string
C22_PlaceholderForZeroRows ==
    NoInputRows =>
        \A r \in Renderers \ page.pending : page.srcDoc[r].html = "placeholder"

\* the timeline of a store whose rows all lie outside the window is the
\* empty string as well
TimelineBlankOutsideWindow ==
    /\ page.filtered_data # {}
    /\ "update_timeline_map" \notin page.pending
    /\ page.srcDoc["update_timeline_map"] = Blank

---------------------------------------------------------------------------
(* Properties of the batching loop *)

IsBatchedQuery == ret.op = "_execute_batched_query"

\* C23: a call of the batched retrieval with a batch size of zero or less
\* on a list that holds ids ends in an error; it returns no result
C23_NonPositiveBatchSizeRaises ==
    (IsBatchedQuery /\ ret.batch_size <= 0 /\ ret.ids # <<>>) => ret.status = "raise"

\* the ids each statement of the call bound, in the order of the statements
Chunks == [k \in DOMAIN statements |-> statements[k].params]

RECURSIVE Flatten(_)
Flatten(lists) ==
    IF lists = <<>> THEN <<>> ELSE Head(lists) \o Flatten(Tail(lists))

\* C25: for a batch size of 1 or more the loop ends without error and its
\* chunks partition the id list: put one after the other in the order they
\* were issued they are the list, each holds between 1 and batch_size ids,
\* and there are ceil(len(ids) / batch_size) of them
C25_LoopPartitions ==
    (IsBatchedQuery /\ ret.batch_size >= 1) =>
        /\ ret.status = "ok"
        /\ Flatten(Chunks) = ret.ids
        /\ \A k \in DOMAIN Chunks :
              1 <= Len(Chunks[k]) /\ Len(Chunks[k]) <= ret.batch_size
        /\ Len(Chunks) = (Len(ret.ids) + ret.batch_size - 1) \div ret.batch_size

\* three ids in batches of two: a full chunk and a shorter last one
C25_Witness ==
    /\ IsBatchedQuery
    /\ ret.batch_size = 2
    /\ Len(ret.ids) = 3
    /\ Len(Chunks) = 2
    /\ Len(Chunks[2]) = 1

---------------------------------------------------------------------------
(* Properties of the startup caches *)

\* C24: once the DataLayer is constructed no operation changes its cached
\* lists or its corpus statistics; get_corpus_stats and get_unique_values
\* return what the constructor computed from the stores; and the files
\* behind get_cached_data are read at most once
C24_StartupCachesFrozen ==
    /\ [][dl = "ready" =>
            (cached_lists' = cached_lists /\ corpus_stats' = corpus_stats)]_vars
    /\ [](ret.op = "get_corpus_stats" => ret.value = CorpusStats)
    /\ [](ret.op = "get_unique_values" =>
            ret.value = (IF ret.tokens[1] \in DOMAIN CachedLists
                         THEN CachedLists[ret.tokens[1]] ELSE {}))
    /\ [](cached_data.loads <= 1)

\* get_cached_data called again after the load, the DataLayer constructed
\* over a places table with rows
C24_Witness ==
    /\ dl = "ready"
    /\ corpus_stats.total_places > 0
    /\ ret.op = "get_cached_data"
    /\ ret.status = "cached"
    /\ ret.value.loads = 1
    /\ cached_data.loads = 1

\* the author list read back after construction holds the authors of the
\* documents with places
C24_WitnessLists ==
    /\ ret.op = "get_unique_values"
    /\ ret.tokens = <<"author">>
    /\ ret.value # {}

---------------------------------------------------------------------------
(* Properties of the map's panels *)

\* the rows of the store, an empty list for an empty store
StoredRows ==
    IF page.filtered_data = {} THEN <<>> ELSE CHOOSE rows \in page.filtered_data : TRUE

\* the documents of the store that mention the place of a marker
Contributors(m) ==
    {r.dhlabid : r \in {x \in Range(StoredRows) :
                           x.token = m.token /\ x.modern_name = m.modern_name}}

\* C26: the panel of every marker of the map lists exactly the documents of
\* the filtered data that mention the marker's place, k documents for a
\* place that k of them mention
C26_PanelListsContributors ==
    "update_map" \notin page.pending =>
        \A i \in DOMAIN page.srcDoc["update_map"].markers :
            LET m == page.srcDoc["update_map"].markers[i]
            IN  /\ Range(m.books) = Contributors(m)
                /\ Len(m.books) = Cardinality(Contributors(m))

\* a map whose markers have panels, each place mentioned by one document
PanelOfOneDocument ==
    /\ "update_map" \notin page.pending
    /\ page.srcDoc["update_map"].markers # <<>>
    /\ \A i \in DOMAIN page.srcDoc["update_map"].markers :
          Cardinality(Contributors(page.srcDoc["update_map"].markers[i])) = 1

---------------------------------------------------------------------------
(* Properties of the cache under concurrent clearing *)

\* C27: whatever another request does to the cache meanwhile, the read that
\* ends get_cached_map_html finds the key: no call ends with a KeyError,
\* and a call that has read holds the artifact the cache had under its key
C27_ReadFindsKey ==
    \A t \in Threads :
        /\ thr[t].status # "KeyError"
        /\ thr[t].status = "ok" => thr[t].result # NoHtml

\* a request reads its entry while the other request is about to clear a
\* cache that holds more than the limit
ReadBesideClear ==
    \E t, u \in Threads :
        /\ t # u
        /\ thr[t].pc = "read"
        /\ thr[u].pc = "clear"
        /\ KeyOf(thr[t].request) \in DOMAIN map_cache

---------------------------------------------------------------------------
(* Properties of the request pipeline *)

\* the ids of a list whose documents mention one of the tokens
MentioningIds(ids, tokens) ==
    {ids[i] : i \in {j \in DOMAIN ids :
                        \E r \in Range(places) :
                            r.dhlabid = ids[j] /\ r.token \in Range(tokens)}}

\* the ids places were retrieved for are among the sampled ids, and are no
\* more than the sample size
PlaceIdsWithinSample ==
    page.retrieved =>
        /\ Range(page.place_ids) \subseteq Range(page.filtered_ids)
        /\ page.sample_size > 0 => Len(page.place_ids) <= page.sample_size

RetrievedForSample ==
    /\ page.retrieved
    /\ page.sample_size = 2
    /\ Len(page.place_ids) = 2
    /\ page.places_selected = <<>>

---------------------------------------------------------------------------
(* Properties of the map after filter changes *)

\* the callbacks due after the last filter change have run
Settled == page.changes > 0 /\ page.pending = {}

\* C28: once the callbacks of a filter change have run, the map shows the
\* current filter result: when the filter left no document, the iframe
\* holds no marker of an earlier filter
C28_MapFollowsFilter ==
    (Settled /\ page.filtered_data = {}) => page.srcDoc["update_map"].markers = <<>>

\* a filter that leaves no document comes after one whose map had markers
EmptyAfterMarkers ==
    /\ Settled
    /\ page.changes = 2
    /\ page.filtered_data = {}
    /\ page.status = "PreventUpdate"

---------------------------------------------------------------------------
(* Properties of the timeline graph *)

\* the markers of a map counted per year
MarkerBars(markers) ==
    LET ys == {markers[i].year : i \in DOMAIN markers}
    IN  [y \in ys |-> Cardinality({i \in DOMAIN markers : markers[i].year = y})]

\* C30: once the callbacks of the tab have run, the graph counts the rows
\* the map shows: both took the same subset of the stored rows, in sliding
\* mode the rows of the years Y - W + 1 to Y for the persistence W chosen
C30_GraphCountsMapRows ==
    page.pending = {} =>
        tl.figure.bars = MarkerBars(page.srcDoc["update_timeline_map"].markers)

\* C30, cumulative mode and the five-year slice: the graph counts the rows
\* the map shows
GraphCountsMapRowsAtFive ==
    (page.pending = {} /\ (tl.viz_type = "cumulative" \/ tl.persistence = 5)) =>
        tl.figure.bars = MarkerBars(page.srcDoc["update_timeline_map"].markers)

\* a one-year slice has been drawn over stored rows
OneYearSlice ==
    /\ page.pending = {}
    /\ tl.viz_type = "slice"
    /\ tl.persistence = 1
    /\ tl.figure.kind = "Bar"
    /\ page.srcDoc["update_timeline_map"].markers # <<>>

====
